---------------------------- MODULE Spec2Model ----------------------------
(***************************************************************************)
(* A model of the stream daemon: the per-stream processor state machine    *)
(* (src/src/stream_processor.cpp), the batch inference manager             *)
(* (src/src/batch_inference_manager.cpp) and the stream manager registry   *)
(* (src/src/stream_manager.cpp).                                           *)
(*                                                                         *)
(* Three specifications share the module: SpecProc drives one stream       *)
(* processor, SpecBatch one batch inference manager with its worker, its   *)
(* submitting threads and a stopping thread, SpecMgr the stream manager.   *)
(*                                                                         *)
(* The event compositor (src/src/event_compositor.cpp) and the frame       *)
(* handler of the processor have three more: SpecComp loads settings       *)
(* documents, SpecMatch loads one setting and evaluates detections against *)
(* it, SpecFrame runs the frame handler of one processor.                  *)
(*                                                                         *)
(* The publisher (src/src/nats_publisher.cpp) has SpecPub, with a          *)
(* publishing thread, a controlling thread and the reconnect thread, and   *)
(* SpecPubLive, the same with its threads scheduled.  SpecInfer makes one  *)
(* call of the decoders of src/src/hailo_inference.cpp.                    *)
(*                                                                         *)
(* Six more follow single mechanisms: SpecEngines the engine registry of   *)
(* HailoInference::GetInstance with its callers, SpecStop a processor's    *)
(* Stop against the handlers of the event-loop thread, SpecLoop and        *)
(* SpecLoopLive the Start and Stop of the manager with its event-loop      *)
(* thread, SpecLocks the two mutexes of the manager, SpecDevice the        *)
(* vstreams under RunBatchInference, SpecGrpc the usage counts kept by the *)
(* gRPC service (src/src/grpc_server.cpp, src/src/model_registry.cpp).     *)
(***************************************************************************)
EXTENDS Integers, Sequences, FiniteSets, TLC

VARIABLES
    \* ---- one StreamProcessor (SpecProc)
    proc,            \* the processor object: its fields, and the notifications of the running call
    proc_op,         \* the call or handler that made the last step
    frame_seen,      \* a frame was delivered since the last Start
    streak,          \* reconnects scheduled in a row with no frame and no outside call in between
    stream_info,     \* the processor's rtsp_url_, hef_path_, model_id_, task_, num_keypoints_, labels_, config_
    proc_arg,        \* the StreamInfo the last Update was called with
    \* ---- one BatchInferenceManager (SpecBatch)
    running_,        \* std::atomic<bool> running_
    pending_frames_, \* std::queue<PendingFrame>, guarded by queue_mutex_
    batch_frames,    \* the worker's local std::vector<PendingFrame>
    worker_pc,       \* where the worker thread stands in WorkerLoop
    stop_pc,         \* where the thread calling Stop stands
    submit_pc,       \* per submitting thread: where it stands in SubmitFrame
    device_frames,   \* frames of a batch the accelerator reads back before an I/O call fails
    next_frame,      \* frames created so far (each gets the next number)
    delivered,       \* the callback invocations so far, in order
    batch_sizes,     \* the sizes of the batches handed to ProcessBatch so far
    \* ---- the StreamManager (SpecMgr)
    streams_,        \* std::map<std::string, std::unique_ptr<StreamProcessor>>
    mgr_running_,    \* StreamManager::running_
    last_call,       \* the last manager call: its name, argument, result and the registry before it
    \* ---- one EventCompositor (SpecComp, SpecMatch, SpecFrame)
    compositor,      \* the compositor object: settings_ and terminal_events_
    comp_call,       \* the last compositor call: its name, arguments and result
    \* ---- the frame path of one StreamProcessor (SpecFrame)
    nats_connected,      \* NatsPublisher::IsConnected()
    detection_callback_, \* a detection callback is set
    last_frame,          \* the last run of the frame handler: what it built, published and called back
    \* ---- one NatsPublisher with its threads (SpecPub, SpecPubLive)
    nats,                \* the publisher object: state_, connection_, the reconnect flags and the statistics
    connection_mutex_,   \* the thread that holds connection_mutex_, or "free"
    nats_pc,             \* where the publishing thread, the controlling thread and the reconnect thread stand
    bus,                 \* the message bus: reachable or not, what it received, what the client library buffered
    nats_log,            \* the running or last Publish call, the last controlling call, std::terminate called
    \* ---- the decoders of HailoInference (SpecInfer)
    infer_call,          \* the last decode or NMS call: its name, its input and its result
    \* ---- the engine registry of HailoInference (SpecEngines)
    hailo,               \* instances_, static_mutex_, the threads in GetInstance and what they returned
    \* ---- Stop of a StreamProcessor against its handlers (SpecStop)
    sproc,               \* the processor, the thread in Stop and the thread of the main loop
    \* ---- the event loop of the StreamManager (SpecLoop, SpecLoopLive)
    mloop,               \* running_, main_loop_, the calling thread and the event-loop thread
    \* ---- the locks of the StreamManager (SpecLocks)
    gcb,                 \* streams_mutex_, callback_mutex_, the adding and the setting thread
    \* ---- the vstreams of one HailoInference (SpecDevice)
    device,              \* what the device holds queued on its output streams, and the calls made
    \* ---- the gRPC service with its model registry (SpecGrpc)
    grpc                 \* the streams, the usage counts of the models, the last request

procVars  == <<proc, proc_op, frame_seen, streak, stream_info, proc_arg>>
batchVars == <<running_, pending_frames_, batch_frames, worker_pc, stop_pc,
               submit_pc, device_frames, next_frame, delivered, batch_sizes>>
mgrVars   == <<streams_, mgr_running_, last_call>>
compVars  == <<compositor, comp_call>>
frameVars == <<nats_connected, detection_callback_, last_frame>>
natsVars  == <<nats, connection_mutex_, nats_pc, bus, nats_log>>
inferVars == <<infer_call>>
sysVars   == <<hailo, sproc, mloop, gcb, device, grpc>>
eventVars == <<compVars, frameVars, natsVars, inferVars, sysVars>>
vars      == <<procVars, batchVars, mgrVars, eventVars>>

(***************************************************************************)
(* Program constants and model bounds.                                     *)
(***************************************************************************)
kMaxReconnectAttempts == 10
kMaxStreams == 4
\* NatsPublisher::kMaxReconnectAttempts (0 = unlimited)
kMaxReconnectAttemptsNats == 0
\* BatchInferenceManager::confidence_threshold_, in hundredths
confidence_threshold_ == 25
\* the IoU threshold RunInference hands ParseRawYoloOutput, in hundredths
kIouThreshold == 45

\* the longest run of reconnects the processor model follows
MaxStreak == 12
\* the batch size of the model file (HailoInference::GetBatchSize)
BatchSize == 2
\* frames submitted to the batch manager in one run
MaxFrames == 3
\* threads that call SubmitFrame, one per stream
NumSubmitters == 2
\* stream ids the manager is called with
NumStreamIds == 5
\* entries of the "configs" array of a settings document
MaxConfigs == 2
\* detections of one frame
MaxDetections == 2
\* messages the publisher model publishes
MaxPublished == 2
\* times the message bus becomes unreachable
MaxOutages == 2
\* the reconnect attempts the publisher model counts
MaxAttempts == 2
\* width and height of the model input, in pixels
InputSize == 8
\* slots or grid cells the device reports for one frame
MaxSlots == 2
\* boxes handed to ApplyNMS
MaxBoxes == 3
\* threads that call GetInstance
NumCallers == 2
\* engines constructed in one run
MaxEngines == 3
\* Start calls of one manager
MaxStarts == 3
\* stream ids added between Start and Stop
NumLoopStreams == 3
\* AddStream calls made while callbacks are set
MaxAdded == 2
\* callbacks set for one kind
MaxCallbacks == 2
\* output vstreams of an engine
NumOutputs == 2
\* RunBatchInference calls on one engine
MaxDeviceCalls == 3
\* cells of the grid of one scale
MaxCells == 3
\* streams the gRPC service registers
NumGrpcStreams == 2
\* largest usage_count followed
MaxUsage == 3

(***************************************************************************)
(*                          EVENT COMPOSITOR                               *)
(***************************************************************************)
\* A settings document is [well_formed, has_configs, configs]: json::parse
\* accepts it, it has a "configs" array, and the entries of that array.  An
\* entry is a record of the keys the parser looks at.  A key the entry does
\* not carry holds Absent (AbsentNumber for a number), a key whose value is
\* not a string holds NotAString.
Absent == "<absent>"

NotAString == "<not a string>"

AbsentNumber == -1

\* ::tolower over a string, on the strings the model uses.
Lower(str) ==
    CASE str = "ROI" -> "roi"
      [] str = "Line" -> "line"
      [] str = "LINE" -> "line"
      [] str = "AngleViolation" -> "angleviolation"
      [] str = "And" -> "and"
      [] str = "Or" -> "or"
      [] str = "Speed" -> "speed"
      [] str = "HM" -> "hm"
      [] str = "Filter" -> "filter"
      [] str = "EnEx" -> "enex"
      [] str = "Alarm" -> "alarm"
      [] str = "Polygon" -> "polygon"
      [] str = "ALL" -> "all"
      [] str = "All" -> "all"
      [] str = "Person" -> "person"
      [] str = "PERSON" -> "person"
      [] str = "Car" -> "car"
      [] str = "CAR" -> "car"
      [] OTHER -> str

ParseEventType(type_str) ==
    LET lower == Lower(type_str) IN
    CASE lower = "roi" -> "ROI"
      [] lower = "line" -> "Line"
      [] lower = "angleviolation" -> "AngleViolation"
      [] lower = "and" -> "And"
      [] lower = "or" -> "Or"
      [] lower = "speed" -> "Speed"
      [] lower = "hm" -> "HM"
      [] lower = "filter" -> "Filter"
      [] lower = "enex" -> "EnEx"
      [] lower = "alarm" -> "Alarm"
      [] OTHER -> "Unknown"

ParseDetectionPoint(dp_str) ==
    IF dp_str \in {"l:t", "c:t", "r:t", "l:c", "c:c", "r:c", "l:b", "c:b", "r:b"}
    THEN dp_str ELSE "c:b"

ParseDirection_IgnoringCase(dir_str) ==
    IF dir_str \in {"A2B", "a2b"} THEN "A2B"
    ELSE IF dir_str \in {"B2A", "b2a"} THEN "B2A" ELSE "BOTH"

ParseDirection(dir_str) == IF dir_str \in {"A2B", "B2A", "BOTH"} THEN dir_str ELSE "BOTH"

\* The "targets" array from element i on: a string element "ALL" or "all"
\* empties the labels and ends the loop, any other string is appended, an
\* element that is not a string is passed over.
RECURSIVE TargetsFrom(_, _, _)
TargetsFrom(items, i, labels) ==
    IF i > Len(items) THEN labels
    ELSE IF items[i] = NotAString THEN TargetsFrom(items, i + 1, labels)
    ELSE IF items[i] \in {"ALL", "all"} THEN <<>>
    ELSE TargetsFrom(items, i + 1, Append(labels, items[i]))

\* target.labels of an entry: "targets" as an array or as one string, then
\* the label of the single "target" object of older documents.
ParseTargets(config) ==
    LET from_targets ==
            CASE config.targets.form = "array" -> TargetsFrom(config.targets.items, 1, <<>>)
              [] config.targets.form = "string" ->
                     IF config.targets.items[1] \notin {"ALL", "all"}
                     THEN <<config.targets.items[1]>> ELSE <<>>
              [] OTHER -> <<>>
    IN  IF config.target # Absent THEN Append(from_targets, config.target) ELSE from_targets

\* A get<std::string>() on a value that is not a string throws.
Throws(config) ==
    \/ config.eventSettingId = NotAString
    \/ config.eventType = NotAString
    \/ config.parentId = NotAString

\* The EventSetting built from one entry; a key the entry does not carry
\* leaves the member's initialiser.
ParseConfig(config) ==
    [event_setting_id |-> config.eventSettingId,
     event_type |-> IF config.eventType = Absent THEN "Unknown"
                    ELSE ParseEventType(config.eventType),
     parent_id |-> IF config.parentId = Absent THEN "" ELSE config.parentId,
     points |-> config.points,
     labels |-> ParseTargets(config),
     detection_point |-> IF config.detectionPoint = Absent THEN "c:b"
                         ELSE ParseDetectionPoint(config.detectionPoint),
     direction |-> IF config.direction = Absent THEN "BOTH"
                   ELSE ParseDirection(config.direction),
     keypoints |-> config.keypoints,
     warning_distance |-> IF config.warningDistance = AbsentNumber THEN 10
                          ELSE config.warningDistance,
     children |-> {}]

\* std::unordered_map<std::string, EventSetting> as a function of its keys.
NoSettings == [id \in {} |-> id]

Put(map, id, setting) ==
    [x \in DOMAIN map \cup {id} |-> IF x = id THEN setting ELSE map[x]]

\* The loop of ParseSettings from entry i on, working on settings_ itself:
\* an entry with no eventSettingId is passed over, an entry that throws ends
\* the loop with an error and leaves what the earlier entries stored.
RECURSIVE ParseFrom(_, _, _)
ParseFrom(configs, i, settings) ==
    IF i > Len(configs) THEN [ok |-> TRUE, settings |-> settings]
    ELSE IF configs[i].eventSettingId = Absent THEN ParseFrom(configs, i + 1, settings)
    ELSE IF Throws(configs[i]) THEN [ok |-> FALSE, settings |-> settings]
    ELSE ParseFrom(configs, i + 1,
                   Put(settings, configs[i].eventSettingId, ParseConfig(configs[i])))

ParseSettings(settings, doc) ==
    IF ~doc.well_formed \/ ~doc.has_configs THEN [ok |-> FALSE, settings |-> settings]
    ELSE ParseFrom(doc.configs, 1, settings)

\* Every setting whose parent_id is not empty and names a loaded setting is
\* added to that setting's children (a vector filled in the map's iteration
\* order, which is unspecified: its elements as a set).
BuildEventTree(settings) ==
    [id \in DOMAIN settings |->
        [settings[id] EXCEPT !.children =
            {c \in DOMAIN settings :
                settings[c].parent_id # "" /\ settings[c].parent_id = id}]]

FindTerminalEvents_NoFilterTest(settings) ==
    {id \in DOMAIN settings : settings[id].children = {}}

FindTerminalEvents(settings) ==
    {id \in DOMAIN settings :
        /\ settings[id].children = {}
        /\ settings[id].event_type # "Filter"
        /\ settings[id].event_type # "HM"}

NewCompositor == [settings_ |-> NoSettings, terminal_events_ |-> {}]

\* What a compositor call leaves and returns.
Returned(comp, ok, value) == [compositor |-> comp, ok |-> ok, value |-> value]

\* EventCompositor::UpdateSettings, under mutex_: clear, parse, build, find.
UpdateSettings(comp, doc) ==
    LET parsed == ParseSettings(NoSettings, doc) IN
    IF ~parsed.ok
    THEN Returned([settings_ |-> parsed.settings, terminal_events_ |-> {}], FALSE, {})
    ELSE LET tree == BuildEventTree(parsed.settings)
             terminals == FindTerminalEvents(tree)
         IN  Returned([settings_ |-> tree, terminal_events_ |-> terminals], TRUE, terminals)

ClearSettings(comp) == NewCompositor

GetSettingCount(comp) == Cardinality(DOMAIN comp.settings_)

\* ---- evaluation.  Normalised coordinates (points of a setting, keypoints),
\* warning_distance and visibility are counted in hundredths, pixels in units.

\* EventCompositor::MatchesTarget
MatchesTarget_CaseSensitive(det, labels) ==
    \/ labels = <<>>
    \/ \E i \in 1..Len(labels) : det.class_name = labels[i]

MatchesTarget(det, labels) ==
    \/ labels = <<>>
    \/ \E i \in 1..Len(labels) : Lower(det.class_name) = Lower(labels[i])

\* EventCompositor::GetDetectionPoint times 200 * frame size: the anchor of
\* the bounding box, before the division by the frame size.
GetDetectionPoint(det, dp) ==
    LET col == CASE dp \in {"l:t", "l:c", "l:b"} -> 0
                 [] dp \in {"c:t", "c:c", "c:b"} -> 1
                 [] OTHER -> 2
        row == CASE dp \in {"l:t", "c:t", "r:t"} -> 0
                 [] dp \in {"l:c", "c:c", "r:c"} -> 1
                 [] OTHER -> 2
    IN  [x |-> 100 * (2 * det.bbox.x + col * det.bbox.width),
         y |-> 100 * (2 * det.bbox.y + row * det.bbox.height)]

\* A point of a setting on the same scale.
Scaled(p, frame_width, frame_height) ==
    [x |-> 2 * frame_width * p.x, y |-> 2 * frame_height * p.y]

\* The test of the ray casting loop for the edge from polygon[j] to
\* polygon[i], the division multiplied out.
EdgeCrossed(point, pi, pj) ==
    /\ (pi.y > point.y) # (pj.y > point.y)
    /\ IF pj.y - pi.y > 0
       THEN (point.x - pi.x) * (pj.y - pi.y) < (pj.x - pi.x) * (point.y - pi.y)
       ELSE (point.x - pi.x) * (pj.y - pi.y) > (pj.x - pi.x) * (point.y - pi.y)

\* EventCompositor::IsPointInPolygon from edge i on (j is the index before i).
RECURSIVE InsideFrom(_, _, _, _, _)
InsideFrom(point, polygon, i, j, inside) ==
    IF i > Len(polygon) THEN inside
    ELSE InsideFrom(point, polygon, i + 1, i,
                    IF EdgeCrossed(point, polygon[i], polygon[j]) THEN ~inside ELSE inside)

IsPointInPolygon(point, polygon) ==
    InsideFrom(point, polygon, 1, Len(polygon), FALSE)

\* EventCompositor::CheckROIEvent
CheckROIEvent(setting, det, frame_width, frame_height) ==
    /\ MatchesTarget(det, setting.labels)
    /\ Len(setting.points) >= 3
    /\ IsPointInPolygon(GetDetectionPoint(det, setting.detection_point),
                        [i \in 1..Len(setting.points) |->
                            Scaled(setting.points[i], frame_width, frame_height)])

\* EventCompositor::CheckEvents: every detection gets the ids of the ROI
\* settings it matches (appended in the map's iteration order: as a set).
CheckEvents(comp, detections, frame_width, frame_height) ==
    IF DOMAIN comp.settings_ = {} \/ detections = <<>> THEN detections
    ELSE [i \in 1..Len(detections) |->
             [detections[i] EXCEPT !.event_setting_ids = @ \cup
                 {id \in DOMAIN comp.settings_ :
                     /\ comp.settings_[id].event_type = "ROI"
                     /\ CheckROIEvent(comp.settings_[id], detections[i],
                                      frame_width, frame_height)}]]

\* EventCompositor::PointToLineDistance(point, line_a, line_b) < distance,
\* squared on both sides; a line whose two points coincide is a point.
DistanceBelow(point, line_a, line_b, distance) ==
    LET dx == line_b.x - line_a.x
        dy == line_b.y - line_a.y
        numerator == dy * point.x - dx * point.y + line_b.x * line_a.y - line_b.y * line_a.x
        px == point.x - line_a.x
        py == point.y - line_a.y
    IN  /\ distance > 0
        /\ IF dx * dx + dy * dy = 0
           THEN px * px + py * py < distance * distance
           ELSE numerator * numerator < distance * distance * (dx * dx + dy * dy)

\* EventCompositor::PointLineSide
PointLineSide(point, line_a, line_b) ==
    (line_b.x - line_a.x) * (point.y - line_a.y)
        - (line_b.y - line_a.y) * (point.x - line_a.x)

Max(a, b) == IF a > b THEN a ELSE b

\* The keypoint loop of CheckLineEvent from the i-th index on.
RECURSIVE LineStatusFrom(_, _, _, _, _)
LineStatusFrom(setting, det, kp_indices, i, max_status) ==
    IF i > Len(kp_indices) THEN max_status
    ELSE IF kp_indices[i] < 0 \/ kp_indices[i] >= Len(det.keypoints)
    THEN LineStatusFrom(setting, det, kp_indices, i + 1, max_status)
    ELSE LET kp == det.keypoints[kp_indices[i] + 1]
             near == DistanceBelow(kp, setting.points[1], setting.points[2],
                                   setting.warning_distance)
             side == PointLineSide(kp, setting.points[1], setting.points[2])
             on_danger_side == IF setting.direction = "A2B" THEN side > 0 ELSE side < 0
         IN  IF kp.visible < 30
             THEN LineStatusFrom(setting, det, kp_indices, i + 1, max_status)
             ELSE IF setting.direction = "BOTH"
             THEN LineStatusFrom(setting, det, kp_indices, i + 1,
                                 Max(max_status, IF near THEN 1 ELSE 0))
             ELSE LET status == IF on_danger_side THEN 2 ELSE IF near THEN 1 ELSE 0 IN
                  IF Max(max_status, status) = 2 THEN 2
                  ELSE LineStatusFrom(setting, det, kp_indices, i + 1,
                                      Max(max_status, status))

\* EventCompositor::CheckLineEvent: 0 SAFE, 1 WARNING, 2 DANGER.
CheckLineEvent(setting, det) ==
    IF ~MatchesTarget(det, setting.labels) THEN 0
    ELSE IF Len(setting.points) < 2 THEN 0
    ELSE IF det.keypoints = <<>> THEN 0
    ELSE LineStatusFrom(setting, det,
                        IF setting.keypoints = <<>>
                        THEN [i \in 1..Len(det.keypoints) |-> i - 1]
                        ELSE setting.keypoints,
                        1, 0)

Contains(list, x) == \E i \in 1..Len(list) : list[i] = x

\* The detection loop of CheckLineEvents for one setting, from detection i on.
RECURSIVE LineResultFrom_LastStatus(_, _, _, _)
LineResultFrom_LastStatus(setting, detections, i, result) ==
    IF i > Len(detections) THEN result
    ELSE LET status == CheckLineEvent(setting, detections[i]) IN
         LineResultFrom_LastStatus(setting, detections, i + 1,
             [status |-> status,
              labels |-> IF status > 0 /\ ~Contains(result.labels, detections[i].class_name)
                         THEN Append(result.labels, detections[i].class_name)
                         ELSE result.labels])

RECURSIVE LineResultFrom(_, _, _, _)
LineResultFrom(setting, detections, i, result) ==
    IF i > Len(detections) THEN result
    ELSE LET status == CheckLineEvent(setting, detections[i]) IN
         LineResultFrom(setting, detections, i + 1,
             [status |-> IF status > result.status THEN status ELSE result.status,
              labels |-> IF status > 0 /\ ~Contains(result.labels, detections[i].class_name)
                         THEN Append(result.labels, detections[i].class_name)
                         ELSE result.labels])

\* EventCompositor::CheckLineEvents: event id -> LineEventResult.
CheckLineEvents(comp, detections) ==
    IF DOMAIN comp.settings_ = {} \/ detections = <<>> THEN NoSettings
    ELSE [id \in {x \in DOMAIN comp.settings_ : comp.settings_[x].event_type = "Line"} |->
             LineResultFrom(comp.settings_[id], detections, 1,
                            [status |-> 0, labels |-> <<>>])]

\* The event ids EventCompositor::CheckAngleViolationEvents has an entry for.
AngleViolationIds(comp, detections) ==
    IF DOMAIN comp.settings_ = {} \/ detections = <<>> THEN {}
    ELSE {x \in DOMAIN comp.settings_ : comp.settings_[x].event_type = "AngleViolation"}

\* ---- the documents and detections the compositor is called with
Targets(form, items) == [form |-> form, items |-> items]

\* An entry that carries eventSettingId, eventType and parentId (or not, when
\* Absent is given) and no other key.
Entry(id, type, parent) ==
    [eventSettingId |-> id, eventType |-> type, parentId |-> parent, points |-> <<>>,
     targets |-> Targets(Absent, <<>>), target |-> Absent, detectionPoint |-> Absent,
     direction |-> Absent, keypoints |-> <<>>, warningDistance |-> AbsentNumber]

Document(configs) == [well_formed |-> TRUE, has_configs |-> TRUE, configs |-> configs]

\* Text that is not JSON, and JSON without a "configs" array.
Malformed == [well_formed |-> FALSE, has_configs |-> FALSE, configs |-> <<>>]

NoConfigs == [well_formed |-> TRUE, has_configs |-> FALSE, configs |-> <<>>]

Lists(S, n) == UNION {[1..k -> S] : k \in 0..n}

SettingIds == {"e1", "e2"}

\* Entries for the parent/child tree: ROI settings with every parent, a
\* Filter, an HM below e1, a type that is not a listed kind, an entry whose
\* eventType is not a string, an entry with no id.
TreeEntries ==
    {Entry(id, "ROI", parent) : id \in SettingIds, parent \in {Absent} \cup SettingIds}
      \cup {Entry("e2", "filter", Absent), Entry("e2", "HM", "e1"),
            Entry("e1", "Polygon", Absent), Entry("e2", NotAString, Absent),
            Entry(Absent, "ROI", Absent)}

TreeDocs == {Document(configs) : configs \in Lists(TreeEntries, MaxConfigs)}
                \cup {Malformed, NoConfigs}

Point(x, y) == [x |-> x, y |-> y]

Keypoint(x, y, visible) == [x |-> x, y |-> y, visible |-> visible]

Detection(class_name, bbox_x, bbox_y, keypoints) ==
    [class_name |-> class_name,
     bbox |-> [x |-> bbox_x, y |-> bbox_y, width |-> 20, height |-> 30],
     keypoints |-> keypoints, event_setting_ids |-> {}]

\* Detections of a 100 x 100 frame: keypoints near and far on either side of
\* the line y = 0.5, visible or not; bounding boxes inside and outside the
\* square (0.1, 0.1)-(0.9, 0.9).
Detections ==
    {Detection("person", 10, 10, <<Keypoint(50, 45, 90)>>),
     Detection("person", 10, 10, <<Keypoint(50, 90, 90)>>),
     Detection("Car", 10, 10, <<Keypoint(50, 10, 90), Keypoint(50, 55, 90)>>),
     Detection("Car", 80, 80, <<>>),
     Detection("PERSON", 10, 10, <<Keypoint(50, 90, 20)>>),
     Detection("bus", 80, 80, <<Keypoint(50, 10, 90)>>)}

DetectionLists == Lists(Detections, MaxDetections)

\* A Line setting e1 from (0.2, 0.5) to (0.8, 0.5).
LineEntry(direction, targets, target, keypoints) ==
    [Entry("e1", "Line", Absent) EXCEPT
        !.points = <<Point(20, 50), Point(80, 50)>>, !.direction = direction,
        !.targets = targets, !.target = target, !.keypoints = keypoints]

\* The forms of "targets".
TargetForms ==
    {Targets(Absent, <<>>), Targets("string", <<"ALL">>), Targets("string", <<"all">>),
     Targets("string", <<"person">>), Targets("array", <<>>), Targets("array", <<"ALL">>),
     Targets("array", <<"Person">>), Targets("array", <<"person", "CAR">>),
     Targets("array", <<"car", "ALL">>), Targets("array", <<NotAString>>)}

MatchEntries ==
    {LineEntry(direction, targets, Absent, <<>>) :
        direction \in {"A2B", "B2A", Absent}, targets \in TargetForms}
      \cup {LineEntry("A2B", Targets(Absent, <<>>), Absent, keypoints) :
                keypoints \in {<<1>>, <<5, 0>>}}
      \cup {LineEntry(direction, Targets(Absent, <<>>), Absent, <<>>) :
                direction \in {"BOTH", "a2b"}}
      \cup {LineEntry("A2B", targets, "car", <<>>) :
                targets \in {Targets(Absent, <<>>), Targets("string", <<"ALL">>),
                             Targets("array", <<"person">>)}}
      \cup {[LineEntry("A2B", Targets(Absent, <<>>), Absent, <<>>) EXCEPT
                !.points = <<Point(20, 50)>>],
            [LineEntry("B2A", Targets(Absent, <<>>), Absent, <<>>) EXCEPT
                !.points = <<Point(50, 50), Point(50, 50)>>, !.warningDistance = 45]}

MatchDocs == {Document(<<entry>>) : entry \in MatchEntries}

(***************************************************************************)
(*                         STREAM PROCESSOR                                *)
(***************************************************************************)
StreamStates == {"Stopped", "Starting", "Running", "Reconnecting", "Error"}

\* The object after construction: state_{kStopped}, reconnect_attempts_{0},
\* reconnect_source_id_{0}, pipeline_{nullptr}, a compositor with no settings.  `notified` holds the state
\* the call in progress found, then the states it handed to the state-change
\* callback, in order.
NewProcessor ==
    [state_ |-> "Stopped", reconnect_attempts_ |-> 0, reconnect_source_id_ |-> 0,
     pipeline_ |-> FALSE, notified |-> <<"Stopped">>,
     event_compositor_ |-> NewCompositor]

\* A call starts its record of states with the state it found.
Enter(p) == [p EXCEPT !.notified = <<p.state_>>]

\* state_.exchange(new_state); the callback runs only when the state changed.
SetState(p, new_state) ==
    IF p.state_ # new_state
    THEN [p EXCEPT !.state_ = new_state, !.notified = Append(@, new_state)]
    ELSE p

\* Removes the reconnect timer and the bus watch, frees the pipeline.
DestroyPipeline(p) == [p EXCEPT !.reconnect_source_id_ = 0, !.pipeline_ = FALSE]

CancelReconnect(p) == [p EXCEPT !.reconnect_source_id_ = 0]

\* create_ok: CreatePipeline succeeded; play_ok: gst_element_set_state did not fail.
StartOk(p, create_ok, play_ok) ==
    \/ p.state_ \in {"Running", "Starting"}
    \/ create_ok /\ play_ok

Start(p, create_ok, play_ok) ==
    IF p.state_ \in {"Running", "Starting"} THEN p
    ELSE LET p1 == SetState(p, "Starting") IN
         IF ~create_ok THEN SetState(p1, "Error")
         ELSE IF ~play_ok THEN SetState(DestroyPipeline(p1), "Error")
         ELSE SetState([p1 EXCEPT !.pipeline_ = TRUE, !.reconnect_attempts_ = 0], "Running")

Stop(p) ==
    IF p.state_ = "Stopped" THEN p
    ELSE SetState(DestroyPipeline(CancelReconnect(p)), "Stopped")

\* Update and ClearInference: Stop, overwrite fields, Start.
Update(p, create_ok, play_ok) == Start(Stop(p), create_ok, play_ok)

ClearInference(p, create_ok, play_ok) == Start(Stop(p), create_ok, play_ok)

\* A StreamInfo without its stream id.  "" is the empty string, <<>> the empty
\* label list, 0 and "default" what a StreamInfo holds when nothing was set.
StreamInfo(rtsp_url, hef_path, model_id, task, num_keypoints, labels, config) ==
    [rtsp_url |-> rtsp_url, hef_path |-> hef_path, model_id |-> model_id, task |-> task,
     num_keypoints |-> num_keypoints, labels |-> labels, config |-> config]

\* The fields the constructor copies from the StreamInfo it is given: an empty
\* task becomes "det".
NewFields(info) == [info EXCEPT !.task = IF info.task = "" THEN "det" ELSE info.task]

\* The assignments of Update between its Stop and its Start.
UpdateFields_NoTaskTest(cur, new_info) ==
    [cur EXCEPT !.rtsp_url = new_info.rtsp_url,
                !.hef_path = IF new_info.hef_path # "" THEN new_info.hef_path ELSE @,
                !.model_id = IF new_info.model_id # "" THEN new_info.model_id ELSE @,
                !.config = new_info.config,
                !.task = new_info.task,
                !.num_keypoints = new_info.num_keypoints,
                !.labels = IF new_info.labels # <<>> THEN new_info.labels ELSE @]

UpdateFields(cur, new_info) ==
    [cur EXCEPT !.rtsp_url = new_info.rtsp_url,
                !.hef_path = IF new_info.hef_path # "" THEN new_info.hef_path ELSE @,
                !.model_id = IF new_info.model_id # "" THEN new_info.model_id ELSE @,
                !.config = new_info.config,
                !.task = IF new_info.task # "" THEN new_info.task ELSE @,
                !.num_keypoints = new_info.num_keypoints,
                !.labels = IF new_info.labels # <<>> THEN new_info.labels ELSE @]

\* The assignments of ClearInference between its Stop and its Start.
ClearInferenceFields(cur) == [cur EXCEPT !.hef_path = "", !.model_id = ""]

\* The StreamInfo the processor of the model is created with, and the ones
\* Update is called with: a complete one, the one of a request that names
\* only the stream (every field empty), and the complete one with one field
\* left empty.
CreatedWith == StreamInfo("rtsp://cam/1", "yolo.hef", "app1", "", 17, <<"person">>, "640x480")

FullInfo == StreamInfo("rtsp://cam/2", "pose.hef", "app2", "pose", 5, <<"car", "bus">>, "1280x720")

UpdateInfos ==
    {FullInfo,
     StreamInfo("", "", "", "", 0, <<>>, "default"),
     [FullInfo EXCEPT !.rtsp_url = ""],
     [FullInfo EXCEPT !.hef_path = ""],
     [FullInfo EXCEPT !.model_id = ""],
     [FullInfo EXCEPT !.task = ""],
     [FullInfo EXCEPT !.labels = <<>>]}

ScheduleReconnect(p) ==
    IF p.state_ = "Stopped" THEN p
    ELSE IF p.reconnect_attempts_ >= kMaxReconnectAttempts THEN SetState(p, "Error")
    ELSE [SetState(p, "Reconnecting") EXCEPT
              !.reconnect_attempts_ = p.reconnect_attempts_ + 1,
              !.reconnect_source_id_ = 1]

\* GST_MESSAGE_ERROR and GST_MESSAGE_EOS
BusError(p) == ScheduleReconnect(DestroyPipeline(p))

\* GST_MESSAGE_STATE_CHANGED of the pipeline to PLAYING
BusPlaying(p) ==
    IF p.state_ # "Running"
    THEN [SetState(p, "Running") EXCEPT !.reconnect_attempts_ = 0]
    ELSE p

ReconnectTimeout(p, create_ok, play_ok) ==
    LET p0 == [p EXCEPT !.reconnect_source_id_ = 0]
        p1 == Start(p0, create_ok, play_ok)
    IN  IF StartOk(p0, create_ok, play_ok) THEN p1 ELSE ScheduleReconnect(p1)

\* The handler scheduled a reconnect: it left a timer behind (both handlers
\* clear reconnect_source_id_ before they get to ScheduleReconnect).
Rescheduled(p) == p.reconnect_source_id_ > 0

InitProcVars ==
    /\ proc = NewProcessor
    /\ proc_op = "new"
    /\ frame_seen = FALSE
    /\ streak = 0
    /\ stream_info = NewFields(CreatedWith)
    /\ proc_arg = CreatedWith

ProcStart ==
    /\ UNCHANGED <<batchVars, mgrVars, eventVars>>
    /\ \E c, y \in BOOLEAN : proc' = Start(Enter(proc), c, y)
    /\ proc_op' = "Start"
    /\ frame_seen' = (frame_seen /\ proc.state_ \in {"Running", "Starting"})
    /\ streak' = 0
    /\ UNCHANGED <<stream_info, proc_arg>>

ProcStop ==
    /\ UNCHANGED <<batchVars, mgrVars, eventVars>>
    /\ proc' = Stop(Enter(proc))
    /\ proc_op' = "Stop"
    /\ frame_seen' = FALSE
    /\ streak' = 0
    /\ UNCHANGED <<stream_info, proc_arg>>

ProcUpdate ==
    /\ UNCHANGED <<batchVars, mgrVars, eventVars>>
    /\ \E c, y \in BOOLEAN : proc' = Update(Enter(proc), c, y)
    /\ \E new_info \in UpdateInfos :
           /\ stream_info' = UpdateFields(stream_info, new_info)
           /\ proc_arg' = new_info
    /\ proc_op' = "Update"
    /\ frame_seen' = FALSE
    /\ streak' = 0

ProcClearInference ==
    /\ UNCHANGED <<batchVars, mgrVars, eventVars>>
    /\ \E c, y \in BOOLEAN : proc' = ClearInference(Enter(proc), c, y)
    /\ stream_info' = ClearInferenceFields(stream_info)
    /\ proc_op' = "ClearInference"
    /\ frame_seen' = FALSE
    /\ streak' = 0
    /\ UNCHANGED proc_arg

\* The appsink hands over a frame (ProcessDetections): no state change.
OnNewSample ==
    /\ UNCHANGED <<batchVars, mgrVars, eventVars>>
    /\ proc.pipeline_
    /\ proc' = Enter(proc)
    /\ proc_op' = "OnNewSample"
    /\ frame_seen' = TRUE
    /\ streak' = 0
    /\ UNCHANGED <<stream_info, proc_arg>>

OnBusError ==
    /\ UNCHANGED <<batchVars, mgrVars, eventVars>>
    /\ proc.pipeline_
    /\ streak < MaxStreak
    /\ proc' = BusError(Enter(proc))
    /\ proc_op' = "OnBusError"
    /\ streak' = IF Rescheduled(proc') THEN streak + 1 ELSE streak
    /\ UNCHANGED <<frame_seen, stream_info, proc_arg>>

OnBusPlaying ==
    /\ UNCHANGED <<batchVars, mgrVars, eventVars>>
    /\ proc.pipeline_
    /\ proc' = BusPlaying(Enter(proc))
    /\ proc_op' = "OnBusPlaying"
    /\ UNCHANGED <<frame_seen, streak, stream_info, proc_arg>>

OnReconnectTimeout ==
    /\ UNCHANGED <<batchVars, mgrVars, eventVars>>
    /\ proc.reconnect_source_id_ > 0
    /\ \E c, y \in BOOLEAN : proc' = ReconnectTimeout(Enter(proc), c, y)
    /\ proc_op' = "OnReconnectTimeout"
    /\ frame_seen' = (frame_seen /\ proc.state_ \in {"Running", "Starting"})
    /\ streak' = IF Rescheduled(proc') THEN streak + 1 ELSE streak
    /\ UNCHANGED <<stream_info, proc_arg>>

ProcNext ==
    \/ ProcStart
    \/ ProcStop
    \/ ProcUpdate
    \/ ProcClearInference
    \/ OnNewSample
    \/ OnBusError
    \/ OnBusPlaying
    \/ OnReconnectTimeout

(***************************************************************************)
(*                       BATCH INFERENCE MANAGER                           *)
(***************************************************************************)
Submitters == 1..NumSubmitters

\* The detections the engine decodes from a frame: every frame has its own.
Decode(frame) == {frame.id}

\* HailoInference::RunBatchInference: the result map, keyed by stream id.  The
\* engine reads min(num_frames, batch_size_) frames and stores each one's
\* detections under its stream id, a later frame overwriting an earlier one.
\* A failed write returns the empty map, a failed read the entries stored so
\* far: `healthy` is the number of frames read back before an I/O call fails.
RunBatchInference(frames, healthy) ==
    LET actual_batch == IF Len(frames) < BatchSize THEN Len(frames) ELSE BatchSize
        read == 1..(IF healthy < actual_batch THEN healthy ELSE actual_batch)
        last(s) == CHOOSE i \in read :
                       /\ frames[i].stream_id = s
                       /\ \A j \in read : frames[j].stream_id = s => j <= i
    IN  [s \in {frames[i].stream_id : i \in read} |-> Decode(frames[last(s)])]

\* The delivery loop of ProcessBatch from frame i on.  std::move(it->second)
\* into the callback's by-value parameter leaves the map entry empty.
RECURSIVE DeliverFrom(_, _, _)
DeliverFrom(frames, i, results) ==
    IF i > Len(frames) THEN <<>>
    ELSE LET f == frames[i]
             found == f.stream_id \in DOMAIN results
             call == [frame |-> f.id, stream_id |-> f.stream_id, found |-> found,
                      detections |-> IF found THEN results[f.stream_id] ELSE {}]
             rest == IF found THEN [results EXCEPT ![f.stream_id] = {}] ELSE results
         IN  <<call>> \o DeliverFrom(frames, i + 1, rest)

\* BatchInferenceManager::ProcessBatch: the callback invocations it makes.
ProcessBatch(frames, healthy) ==
    IF frames = <<>> THEN <<>>
    ELSE DeliverFrom(frames, 1, RunBatchInference(frames, healthy))

\* The sizes of the batches that reach RunBatchInference.
Handed(frames) == IF frames = <<>> THEN {} ELSE {Len(frames)}

\* The shutdown loop of WorkerLoop (lines 165-179), run under queue_mutex_:
\* what it delivers and the batch sizes it hands over, starting from the
\* worker's batch_frames as the while loop left them.
RECURSIVE DrainLoop(_, _, _)
DrainLoop(pending, batch, healthy) ==
    IF pending = <<>>
    THEN [calls |-> ProcessBatch(batch, healthy), sizes |-> Handed(batch)]
    ELSE LET b == Append(batch, Head(pending)) IN
         IF Len(b) >= BatchSize
         THEN LET r == DrainLoop(Tail(pending), <<>>, healthy) IN
              [calls |-> ProcessBatch(b, healthy) \o r.calls, sizes |-> {Len(b)} \cup r.sizes]
         ELSE DrainLoop(Tail(pending), b, healthy)

InitBatchVars ==
    /\ running_ = FALSE
    /\ pending_frames_ = <<>>
    /\ batch_frames = <<>>
    /\ worker_pc = "none"
    /\ stop_pc = "idle"
    /\ submit_pc = [t \in Submitters |-> "idle"]
    /\ device_frames = BatchSize
    /\ next_frame = 0
    /\ delivered = <<>>
    /\ batch_sizes = {}

\* BatchInferenceManager::Start: running_.exchange(true), then the worker thread.
BatchStart ==
    /\ UNCHANGED <<procVars, mgrVars, eventVars>>
    /\ ~running_
    /\ stop_pc # "joining"
    /\ running_' = TRUE
    /\ worker_pc' = "loop"
    /\ batch_frames' = <<>>
    /\ stop_pc' = "idle"
    /\ UNCHANGED <<pending_frames_, submit_pc, device_frames, next_frame, delivered, batch_sizes>>

\* BatchInferenceManager::Stop up to the join: running_.exchange(false).
BatchStopCall ==
    /\ UNCHANGED <<procVars, mgrVars, eventVars>>
    /\ stop_pc # "joining"
    /\ running_' = FALSE
    /\ stop_pc' = IF running_ THEN "joining" ELSE "returned"
    /\ UNCHANGED <<pending_frames_, batch_frames, worker_pc, submit_pc, device_frames,
                   next_frame, delivered, batch_sizes>>

\* worker_thread_.join() returns once the worker has left WorkerLoop.
BatchStopJoin ==
    /\ UNCHANGED <<procVars, mgrVars, eventVars>>
    /\ stop_pc = "joining"
    /\ worker_pc = "exited"
    /\ stop_pc' = "returned"
    /\ UNCHANGED <<running_, pending_frames_, batch_frames, worker_pc, submit_pc,
                   device_frames, next_frame, delivered, batch_sizes>>

\* SubmitFrame, line 75: the running_ test, made without the queue lock.
SubmitCheck(t) ==
    /\ UNCHANGED <<procVars, mgrVars, eventVars>>
    /\ submit_pc[t] = "idle"
    /\ next_frame + Cardinality({u \in Submitters : submit_pc[u] = "push"}) < MaxFrames
    /\ submit_pc' = [submit_pc EXCEPT ![t] = IF running_ THEN "push" ELSE "idle"]
    /\ UNCHANGED <<running_, pending_frames_, batch_frames, worker_pc, stop_pc,
                   device_frames, next_frame, delivered, batch_sizes>>

\* SubmitFrame, lines 94-98: the push under queue_mutex_.
SubmitPush(t) ==
    /\ UNCHANGED <<procVars, mgrVars, eventVars>>
    /\ submit_pc[t] = "push"
    /\ pending_frames_' = Append(pending_frames_, [id |-> next_frame + 1, stream_id |-> t])
    /\ next_frame' = next_frame + 1
    /\ submit_pc' = [submit_pc EXCEPT ![t] = "idle"]
    /\ UNCHANGED <<running_, batch_frames, worker_pc, stop_pc, device_frames,
                   delivered, batch_sizes>>

\* WorkerLoop, line 106: while (running_), then batch_frames.clear().
WorkerLoopTest ==
    /\ UNCHANGED <<procVars, mgrVars, eventVars>>
    /\ worker_pc = "loop"
    /\ IF running_
       THEN worker_pc' = "wait" /\ batch_frames' = <<>>
       ELSE worker_pc' = "drain" /\ UNCHANGED batch_frames
    /\ UNCHANGED <<running_, pending_frames_, stop_pc, submit_pc, device_frames,
                   next_frame, delivered, batch_sizes>>

\* WorkerLoop, lines 111-126: wait for a frame or shutdown, take the first frame.
WorkerWait ==
    /\ UNCHANGED <<procVars, mgrVars, eventVars>>
    /\ worker_pc = "wait"
    /\ pending_frames_ # <<>> \/ ~running_
    /\ IF pending_frames_ = <<>>
       THEN /\ worker_pc' = "drain"
            /\ UNCHANGED <<pending_frames_, batch_frames>>
       ELSE /\ batch_frames' = Append(batch_frames, Head(pending_frames_))
            /\ pending_frames_' = Tail(pending_frames_)
            /\ worker_pc' = IF Len(batch_frames') < BatchSize THEN "collect" ELSE "process"
    /\ UNCHANGED <<running_, stop_pc, submit_pc, device_frames, next_frame, delivered, batch_sizes>>

\* WorkerLoop, lines 134-154: one round of the collecting loop.  It ends when
\* running_ is false or the deadline has passed (which may be at any time), and
\* takes a frame while running_ holds and the queue has one.
WorkerCollect ==
    /\ UNCHANGED <<procVars, mgrVars, eventVars>>
    /\ worker_pc = "collect"
    /\ \/ /\ worker_pc' = "process"
          /\ UNCHANGED <<pending_frames_, batch_frames>>
       \/ /\ running_
          /\ pending_frames_ # <<>>
          /\ batch_frames' = Append(batch_frames, Head(pending_frames_))
          /\ pending_frames_' = Tail(pending_frames_)
          /\ worker_pc' = IF Len(batch_frames') < BatchSize THEN "collect" ELSE "process"
    /\ UNCHANGED <<running_, stop_pc, submit_pc, device_frames, next_frame, delivered, batch_sizes>>

\* WorkerLoop, lines 159-161: ProcessBatch(batch_frames), outside the lock.
WorkerProcess ==
    /\ UNCHANGED <<procVars, mgrVars, eventVars>>
    /\ worker_pc = "process"
    /\ delivered' = delivered \o ProcessBatch(batch_frames, device_frames)
    /\ batch_sizes' = batch_sizes \cup Handed(batch_frames)
    /\ worker_pc' = "loop"
    /\ UNCHANGED <<running_, pending_frames_, batch_frames, stop_pc, submit_pc,
                   device_frames, next_frame>>

\* WorkerLoop, lines 165-179: the shutdown loop, all of it under queue_mutex_.
WorkerDrain ==
    /\ UNCHANGED <<procVars, mgrVars, eventVars>>
    /\ worker_pc = "drain"
    /\ LET r == DrainLoop(pending_frames_, batch_frames, device_frames) IN
           /\ delivered' = delivered \o r.calls
           /\ batch_sizes' = batch_sizes \cup r.sizes
    /\ pending_frames_' = <<>>
    /\ batch_frames' = <<>>
    /\ worker_pc' = "exited"
    /\ UNCHANGED <<running_, stop_pc, submit_pc, device_frames, next_frame>>

\* The accelerator starts or stops failing: from now on a batch gets n frames
\* read back before a write or read fails (BatchSize: none fails).
DeviceChange ==
    /\ UNCHANGED <<procVars, mgrVars, eventVars>>
    /\ worker_pc \notin {"none", "exited"}
    /\ \E n \in 0..BatchSize : n # device_frames /\ device_frames' = n
    /\ UNCHANGED <<running_, pending_frames_, batch_frames, worker_pc, stop_pc,
                   submit_pc, next_frame, delivered, batch_sizes>>

BatchNext ==
    \/ BatchStart
    \/ BatchStopCall
    \/ BatchStopJoin
    \/ \E t \in Submitters : SubmitCheck(t)
    \/ \E t \in Submitters : SubmitPush(t)
    \/ WorkerLoopTest
    \/ WorkerWait
    \/ WorkerCollect
    \/ WorkerProcess
    \/ WorkerDrain
    \/ DeviceChange

(***************************************************************************)
(*                           STREAM MANAGER                                *)
(***************************************************************************)
StreamIds == 1..NumStreamIds

\* std::map as a set of (key, value) entries.
Find(map, key) == {e \in map : e.key = key}

Keys(map) == {e.key : e \in map}

Erase(map, key) == map \ Find(map, key)

\* map[key] = value: replaces the entry of the key or inserts one.
Assign(map, key, value) == Erase(map, key) \cup {[key |-> key, value |-> value]}

\* A processor between two calls: nothing notified yet.
Settled(p) == Enter(p)

\* What a manager call leaves: the registry and the result it returns.
Outcome(map, ok) == [map |-> map, ok |-> ok]

\* StreamManager::AddStream, under streams_mutex_ from its first line to its
\* last.  valid: StreamProcessor::Create accepts the info (stream id and RTSP
\* URL are not empty).  A processor whose Start fails is destroyed unregistered.
AddStream_NoDuplicateTest(map, id, valid, create_ok, play_ok) ==
    IF Cardinality(map) >= kMaxStreams THEN Outcome(map, FALSE)
    ELSE IF ~valid THEN Outcome(map, FALSE)
    ELSE IF ~StartOk(NewProcessor, create_ok, play_ok) THEN Outcome(map, FALSE)
    ELSE Outcome(Assign(map, id, Settled(Start(NewProcessor, create_ok, play_ok))), TRUE)

AddStream_LimitOffByOne(map, id, valid, create_ok, play_ok) ==
    IF Find(map, id) # {} THEN Outcome(map, FALSE)
    ELSE IF Cardinality(map) > kMaxStreams THEN Outcome(map, FALSE)
    ELSE IF ~valid THEN Outcome(map, FALSE)
    ELSE IF ~StartOk(NewProcessor, create_ok, play_ok) THEN Outcome(map, FALSE)
    ELSE Outcome(Assign(map, id, Settled(Start(NewProcessor, create_ok, play_ok))), TRUE)

AddStream(map, id, valid, create_ok, play_ok) ==
    IF Find(map, id) # {} THEN Outcome(map, FALSE)
    ELSE IF Cardinality(map) >= kMaxStreams THEN Outcome(map, FALSE)
    ELSE IF ~valid THEN Outcome(map, FALSE)
    ELSE IF ~StartOk(NewProcessor, create_ok, play_ok) THEN Outcome(map, FALSE)
    ELSE Outcome(Assign(map, id, Settled(Start(NewProcessor, create_ok, play_ok))), TRUE)

\* StreamManager::RemoveStream: Stop, then erase.
RemoveStream(map, id) ==
    IF Find(map, id) = {} THEN Outcome(map, FALSE)
    ELSE Outcome(Erase(map, id), TRUE)

\* StreamManager::UpdateStream: the processor is updated in place; the result
\* is the one of its restart.
UpdateStream(map, id, create_ok, play_ok) ==
    IF Find(map, id) = {} THEN Outcome(map, FALSE)
    ELSE Outcome({IF e.key = id
                  THEN [e EXCEPT !.value = Settled(Update(e.value, create_ok, play_ok))]
                  ELSE e : e \in map},
                 \A e \in Find(map, id) : StartOk(Stop(e.value), create_ok, play_ok))

\* StreamManager::ClearStreamInference
ClearStreamInference(map, id, create_ok, play_ok) ==
    IF Find(map, id) = {} THEN Outcome(map, FALSE)
    ELSE Outcome({IF e.key = id
                  THEN [e EXCEPT !.value = Settled(ClearInference(e.value, create_ok, play_ok))]
                  ELSE e : e \in map},
                 \A e \in Find(map, id) : StartOk(Stop(e.value), create_ok, play_ok))

\* StreamManager::UpdateEventSettings: the result is the one of the
\* processor's compositor.
UpdateEventSettings_InsertsUnknown(map, id, doc) ==
    IF Find(map, id) = {}
    THEN Outcome(Assign(map, id, [NewProcessor EXCEPT
                     !.event_compositor_ = UpdateSettings(@, doc).compositor]), FALSE)
    ELSE Outcome({IF e.key = id
                  THEN [e EXCEPT !.value.event_compositor_ = UpdateSettings(@, doc).compositor]
                  ELSE e : e \in map},
                 \A e \in Find(map, id) : UpdateSettings(e.value.event_compositor_, doc).ok)

UpdateEventSettings(map, id, doc) ==
    IF Find(map, id) = {} THEN Outcome(map, FALSE)
    ELSE Outcome({IF e.key = id
                  THEN [e EXCEPT !.value.event_compositor_ = UpdateSettings(@, doc).compositor]
                  ELSE e : e \in map},
                 \A e \in Find(map, id) : UpdateSettings(e.value.event_compositor_, doc).ok)

\* StreamManager::ClearEventSettings
ClearEventSettings(map, id) ==
    IF Find(map, id) = {} THEN Outcome(map, FALSE)
    ELSE Outcome({IF e.key = id
                  THEN [e EXCEPT !.value.event_compositor_ = ClearSettings(@)]
                  ELSE e : e \in map},
                 TRUE)

\* The settings documents the manager is called with: one that loads a
\* setting, one that is not JSON.
MgrDocs == {Document(<<Entry("e1", "ROI", Absent)>>), Malformed}

Call(op, id, ok) == [op |-> op, id |-> id, ok |-> ok, before |-> streams_]

InitMgrVars ==
    /\ streams_ = {}
    /\ mgr_running_ = FALSE
    /\ last_call = [op |-> "new", id |-> 0, ok |-> TRUE, before |-> {}]

MgrStart ==
    /\ UNCHANGED <<procVars, batchVars, eventVars>>
    /\ ~mgr_running_
    /\ mgr_running_' = TRUE
    /\ last_call' = Call("Start", 0, TRUE)
    /\ UNCHANGED streams_

\* StreamManager::Stop: stops every processor and clears the registry.
MgrStop ==
    /\ UNCHANGED <<procVars, batchVars, eventVars>>
    /\ mgr_running_
    /\ mgr_running_' = FALSE
    /\ streams_' = {}
    /\ last_call' = Call("Stop", 0, TRUE)

MgrAddStream ==
    \E id \in StreamIds, valid, c, y \in BOOLEAN :
        LET r == AddStream(streams_, id, valid, c, y) IN
        /\ streams_' = r.map
        /\ last_call' = Call("AddStream", id, r.ok)
        /\ UNCHANGED <<mgr_running_, procVars, batchVars, eventVars>>

MgrRemoveStream ==
    \E id \in StreamIds :
        LET r == RemoveStream(streams_, id) IN
        /\ streams_' = r.map
        /\ last_call' = Call("RemoveStream", id, r.ok)
        /\ UNCHANGED <<mgr_running_, procVars, batchVars, eventVars>>

MgrUpdateStream ==
    \E id \in StreamIds, c, y \in BOOLEAN :
        LET r == UpdateStream(streams_, id, c, y) IN
        /\ streams_' = r.map
        /\ last_call' = Call("UpdateStream", id, r.ok)
        /\ UNCHANGED <<mgr_running_, procVars, batchVars, eventVars>>

MgrClearStreamInference ==
    \E id \in StreamIds, c, y \in BOOLEAN :
        LET r == ClearStreamInference(streams_, id, c, y) IN
        /\ streams_' = r.map
        /\ last_call' = Call("ClearStreamInference", id, r.ok)
        /\ UNCHANGED <<mgr_running_, procVars, batchVars, eventVars>>

MgrUpdateEventSettings ==
    \E id \in StreamIds, doc \in MgrDocs :
        LET r == UpdateEventSettings(streams_, id, doc) IN
        /\ streams_' = r.map
        /\ last_call' = Call("UpdateEventSettings", id, r.ok)
        /\ UNCHANGED <<mgr_running_, procVars, batchVars, eventVars>>

MgrClearEventSettings ==
    \E id \in StreamIds :
        LET r == ClearEventSettings(streams_, id) IN
        /\ streams_' = r.map
        /\ last_call' = Call("ClearEventSettings", id, r.ok)
        /\ UNCHANGED <<mgr_running_, procVars, batchVars, eventVars>>

MgrNext ==
    \/ MgrStart
    \/ MgrStop
    \/ MgrAddStream
    \/ MgrRemoveStream
    \/ MgrUpdateStream
    \/ MgrClearStreamInference

\* The processors a registry can hold: started by AddStream, then possibly in
\* Error after a restart that failed, with or without event settings.
RegisteredProcessors ==
    {[p EXCEPT !.event_compositor_ = comp] :
        p \in {Settled(Start(NewProcessor, TRUE, TRUE)),
                Settled(Update(Settled(Start(NewProcessor, TRUE, TRUE)), FALSE, TRUE))},
        comp \in {NewCompositor} \cup {UpdateSettings(NewCompositor, doc).compositor : doc \in MgrDocs}}

\* The registries the manager can hold.
Registries ==
    UNION {{{[key |-> id, value |-> value[id]] : id \in ids} :
               value \in [ids -> RegisteredProcessors]} :
           ids \in {S \in SUBSET StreamIds : Cardinality(S) <= kMaxStreams}}

\* A running manager with any registry, before a call.
InitMgrCall ==
    /\ streams_ \in Registries
    /\ mgr_running_ = TRUE
    /\ last_call = [op |-> "new", id |-> 0, ok |-> TRUE, before |-> {}]

\* One call of the manager, the first on that registry.
CallAddStream == last_call.op = "new" /\ MgrAddStream

CallRemoveStream == last_call.op = "new" /\ MgrRemoveStream

CallUpdateStream == last_call.op = "new" /\ MgrUpdateStream

CallClearStreamInference == last_call.op = "new" /\ MgrClearStreamInference

CallUpdateEventSettings == last_call.op = "new" /\ MgrUpdateEventSettings

CallClearEventSettings == last_call.op = "new" /\ MgrClearEventSettings

MgrCallNext ==
    \/ CallAddStream
    \/ CallRemoveStream
    \/ CallUpdateStream
    \/ CallClearStreamInference
    \/ CallUpdateEventSettings
    \/ CallClearEventSettings

(***************************************************************************)
(*                      EVENT COMPOSITOR: CALLS                            *)
(***************************************************************************)
\* What comp_call holds after a call.
CompCall(op, doc, detections, ok, value, results) ==
    [op |-> op, doc |-> doc, detections |-> detections, ok |-> ok, value |-> value,
     results |-> results]

InitCompVars ==
    /\ compositor = NewCompositor
    /\ comp_call = CompCall("new", Document(<<>>), <<>>, TRUE, {}, NoSettings)

LoadSettings(doc) ==
    LET r == UpdateSettings(compositor, doc) IN
    /\ compositor' = r.compositor
    /\ comp_call' = CompCall("UpdateSettings", doc, <<>>, r.ok, r.value, NoSettings)

CompUpdateSettings ==
    /\ UNCHANGED <<sysVars, procVars, batchVars, mgrVars, frameVars, natsVars, inferVars>>
    /\ \E doc \in TreeDocs : LoadSettings(doc)

CompClearSettings ==
    /\ UNCHANGED <<sysVars, procVars, batchVars, mgrVars, frameVars, natsVars, inferVars>>
    /\ compositor' = ClearSettings(compositor)
    /\ comp_call' = CompCall("ClearSettings", Document(<<>>), <<>>, TRUE, {}, NoSettings)

CompNext ==
    \/ CompUpdateSettings
    \/ CompClearSettings

MatchUpdateSettings ==
    /\ UNCHANGED <<sysVars, procVars, batchVars, mgrVars, frameVars, natsVars, inferVars>>
    /\ \E doc \in MatchDocs : LoadSettings(doc)

MatchCheckLineEvents ==
    /\ UNCHANGED <<sysVars, procVars, batchVars, mgrVars, frameVars, natsVars, inferVars>>
    /\ \E detections \in DetectionLists :
           comp_call' = CompCall("CheckLineEvents", comp_call.doc, detections, TRUE, {},
                                 CheckLineEvents(compositor, detections))
    /\ UNCHANGED compositor

\* EventCompositor::MatchesTarget for one detection and the target of the
\* loaded setting e1; comp_call.ok holds what it returned.
MatchMatchesTarget ==
    /\ UNCHANGED <<sysVars, procVars, batchVars, mgrVars, frameVars, natsVars, inferVars>>
    /\ "e1" \in DOMAIN compositor.settings_
    /\ \E det \in Detections :
           comp_call' = CompCall("MatchesTarget", comp_call.doc, <<det>>,
                                 MatchesTarget(det, compositor.settings_["e1"].labels),
                                 {}, NoSettings)
    /\ UNCHANGED compositor

MatchNext ==
    \/ MatchUpdateSettings
    \/ MatchCheckLineEvents
    \/ MatchMatchesTarget

(***************************************************************************)
(*                   FRAME HANDLER OF THE PROCESSOR                        *)
(***************************************************************************)
\* The result of a CheckLineEvents or CheckAngleViolationEvents call as the
\* events member of an envelope would hold it: event id -> EventStatus.
NoEvents == NoSettings

\* StreamProcessor::ProcessDetections for one buffer.  mapped: gst_buffer_map
\* succeeded; inferred: what RunInference returned (nothing without a ready
\* engine).  It gives the DetectionEvent objects built, the ones handed to
\* NatsPublisher::Publish and the ones handed to the detection callback.
ProcessDetections_PublishUnconnected(comp, mapped, inferred, width, height, connected, has_callback) ==
    IF ~mapped THEN [envelopes |-> <<>>, published |-> <<>>, invoked |-> <<>>]
    ELSE LET event == [width |-> width, height |-> height,
                       detections |-> IF inferred # <<>>
                                      THEN CheckEvents(comp, inferred, width, height)
                                      ELSE inferred,
                       events |-> NoEvents]
         IN  [envelopes |-> <<event>>,
              published |-> <<event>>,
              invoked |-> IF has_callback THEN <<event>> ELSE <<>>]

ProcessDetections(comp, mapped, inferred, width, height, connected, has_callback) ==
    IF ~mapped THEN [envelopes |-> <<>>, published |-> <<>>, invoked |-> <<>>]
    ELSE LET event == [width |-> width, height |-> height,
                       detections |-> IF inferred # <<>>
                                      THEN CheckEvents(comp, inferred, width, height)
                                      ELSE inferred,
                       events |-> NoEvents]
         IN  [envelopes |-> <<event>>,
              published |-> IF connected THEN <<event>> ELSE <<>>,
              invoked |-> IF has_callback THEN <<event>> ELSE <<>>]

\* The square (0.1, 0.1)-(0.9, 0.9) of the ROI settings.
Square == <<Point(10, 10), Point(90, 10), Point(90, 90), Point(10, 90)>>

\* What inference returns for a frame: a person and a car inside the square,
\* a bus outside.
FrameDetections ==
    {Detection("person", 10, 10, <<Keypoint(50, 90, 90)>>),
     Detection("Car", 10, 10, <<Keypoint(50, 10, 90), Keypoint(50, 55, 90)>>),
     Detection("bus", 80, 80, <<Keypoint(50, 10, 90)>>)}

\* The settings documents of the frame model: an ROI e2 over the square
\* restricted to persons with a Line e1, an AngleViolation, an ROI for every
\* class.
FrameDocs ==
    {Document(<<[Entry("e2", "ROI", Absent) EXCEPT
                    !.points = Square, !.targets = Targets("array", <<"person">>)],
                LineEntry("A2B", Targets(Absent, <<>>), Absent, <<>>)>>),
     Document(<<[Entry("e2", "AngleViolation", Absent) EXCEPT
                    !.points = <<Point(20, 50), Point(80, 50)>>]>>),
     Document(<<[Entry("e2", "ROI", Absent) EXCEPT !.points = Square]>>)}

\* What last_frame holds after a run of the handler: the settings, the
\* publisher's connection and the callback it found, and what it did.
FrameRun(comp, mapped, connected, has_callback, done) ==
    [handled |-> TRUE, settings |-> comp, mapped |-> mapped, connected |-> connected,
     has_callback |-> has_callback, envelopes |-> done.envelopes,
     published |-> done.published, invoked |-> done.invoked]

\* last_frame before the appsink has handed over any buffer.
NoFrame ==
    [handled |-> FALSE, settings |-> NewCompositor, mapped |-> FALSE, connected |-> FALSE,
     has_callback |-> FALSE, envelopes |-> <<>>, published |-> <<>>, invoked |-> <<>>]

InitFrameVars ==
    /\ nats_connected = FALSE
    /\ detection_callback_ = FALSE
    /\ last_frame = NoFrame

\* StreamProcessor::UpdateEventSettings
FrameUpdateEventSettings ==
    /\ UNCHANGED <<sysVars, procVars, batchVars, mgrVars, frameVars, natsVars, inferVars>>
    /\ \E doc \in FrameDocs : LoadSettings(doc)

\* StreamProcessor::ClearEventSettings
FrameClearEventSettings ==
    /\ UNCHANGED <<sysVars, procVars, batchVars, mgrVars, frameVars, natsVars, inferVars>>
    /\ compositor' = ClearSettings(compositor)
    /\ comp_call' = CompCall("ClearSettings", Document(<<>>), <<>>, TRUE, {}, NoSettings)

\* The publisher connects or loses its connection.
PublisherChange ==
    /\ UNCHANGED <<sysVars, procVars, batchVars, mgrVars, compVars, natsVars, inferVars>>
    /\ nats_connected' = ~nats_connected
    /\ UNCHANGED <<detection_callback_, last_frame>>

\* StreamProcessor::SetDetectionCallback with a callback or an empty one.
SetDetectionCallback ==
    /\ UNCHANGED <<sysVars, procVars, batchVars, mgrVars, compVars, natsVars, inferVars>>
    /\ detection_callback_' = ~detection_callback_
    /\ UNCHANGED <<nats_connected, last_frame>>

\* The appsink hands a buffer of a 100 x 100 frame to ProcessDetections.
ProcessFrame ==
    /\ UNCHANGED <<sysVars, procVars, batchVars, mgrVars, compVars, natsVars, inferVars>>
    /\ \E mapped \in BOOLEAN, inferred \in Lists(FrameDetections, MaxDetections) :
           last_frame' = FrameRun(compositor, mapped, nats_connected, detection_callback_,
                                  ProcessDetections(compositor, mapped, inferred, 100, 100,
                                                    nats_connected, detection_callback_))
    /\ UNCHANGED <<nats_connected, detection_callback_>>

FrameNext ==
    \/ FrameUpdateEventSettings
    \/ FrameClearEventSettings
    \/ PublisherChange
    \/ SetDetectionCallback
    \/ ProcessFrame

(***************************************************************************)
(*                          NATS PUBLISHER                                 *)
(***************************************************************************)
\* The publisher object after construction.  connection_ is "null" or the
\* status natsConnection_Status gives for the handle: "CONNECTED",
\* "RECONNECTING" (the client library retries by itself) or "CLOSED" (the
\* library gave up).  reconnect_attempts_ is followed up to MaxAttempts.
NewPublisher ==
    [state_ |-> "Disconnected", connection_ |-> "null",
     reconnect_thread_running_ |-> FALSE, reconnect_attempts_ |-> 0,
     messages_published_ |-> 0, last_publish_time_ |-> 0]

\* The threads of the model: the one that publishes frames, the one that
\* calls Connect, Disconnect and ForceReconnect, the reconnect thread.
\* "None" for the reconnect thread: reconnect_thread_ is not joinable.
IdleThreads == [pub |-> "Idle", ctl |-> "Idle", rt |-> "None"]

\* The message bus: reachable or not, the messages it received and the
\* messages the client library holds in its reconnect buffer.
NewBus == [reachable |-> TRUE, sent |-> 0, buffered |-> 0, outages |-> 0]

\* A Publish or PublishRaw call: connected is what the call found (IsConnected()
\* in Publish, the tests under the lock in PublishRaw), sent / buffered what
\* natsConnection_PublishString did with the message, before the statistics
\* and the bus at the call, after_disconnect whether the last controlling
\* call was a Disconnect that had returned.
PublishCall(op, n, b, after_disconnect) ==
    [op |-> op, done |-> FALSE, connected |-> FALSE, ok |-> TRUE, sent |-> FALSE,
     buffered |-> FALSE, after_disconnect |-> after_disconnect,
     before |-> [messages_published_ |-> n.messages_published_,
                 last_publish_time_ |-> n.last_publish_time_,
                 sent |-> b.sent, buffered |-> b.buffered]]

NoLog ==
    [publish |-> [PublishCall("none", NewPublisher, NewBus, FALSE) EXCEPT !.done = TRUE],
     ctl_op |-> "none", disconnected |-> FALSE, connect_failed |-> FALSE,
     terminated |-> FALSE]

InitNatsVars ==
    /\ nats = NewPublisher
    /\ connection_mutex_ = "free"
    /\ nats_pc = IdleThreads
    /\ bus = NewBus
    /\ nats_log = NoLog

\* NatsPublisher::IsConnected once it holds what it needs.
IsConnected(n) == n.state_ = "Connected" /\ n.connection_ = "CONNECTED"

\* What a call leaves: the publisher, the reconnect thread, std::terminate.
Left(n, rt, terminated) == [nats |-> n, rt |-> rt, terminated |-> terminated]

\* NatsPublisher::StartBackgroundReconnect.  Assigning a new std::thread to
\* reconnect_thread_ while it is joinable calls std::terminate.
StartBackgroundReconnect_Joins(n, rt) ==
    IF n.reconnect_thread_running_ THEN Left(n, rt, FALSE)
    ELSE IF n.state_ = "Connected" THEN Left(n, rt, FALSE)
    ELSE Left([n EXCEPT !.reconnect_thread_running_ = TRUE, !.state_ = "Reconnecting"],
              "Wait", FALSE)

StartBackgroundReconnect(n, rt) ==
    IF n.reconnect_thread_running_ THEN Left(n, rt, FALSE)
    ELSE IF n.state_ = "Connected" THEN Left(n, rt, FALSE)
    ELSE Left([n EXCEPT !.reconnect_thread_running_ = TRUE, !.state_ = "Reconnecting"],
              IF rt = "None" THEN "Wait" ELSE rt, rt # "None")

\* ConnectInternal up to natsConnection_Connect: TRUE when it returns at once
\* because the connection is up.
AlreadyConnected(n) == n.state_ = "Connected" /\ n.connection_ = "CONNECTED"

\* ConnectInternal: the old connection is closed and destroyed, the state is
\* Connecting.
BeginConnect(n) == [n EXCEPT !.connection_ = "null", !.state_ = "Connecting"]

\* ConnectInternal after natsConnection_Connect returned, with success when
\* the bus is reachable.
EndConnect(n, rt, reachable) ==
    IF reachable
    THEN Left([n EXCEPT !.connection_ = "CONNECTED", !.state_ = "Connected",
                        !.reconnect_attempts_ = 0], rt, FALSE)
    ELSE StartBackgroundReconnect([n EXCEPT !.state_ = "Disconnected"], rt)

\* The end of ReconnectThreadFunc.
ThreadExit(n) == [n EXCEPT !.reconnect_thread_running_ = FALSE]

Alive == ~nats_log.terminated

\* ---- the environment: the bus and the client library
BusDown ==
    /\ UNCHANGED <<sysVars, procVars, batchVars, mgrVars, compVars, frameVars, inferVars>>
    /\ Alive
    /\ bus.reachable /\ bus.outages < MaxOutages
    /\ bus' = [bus EXCEPT !.reachable = FALSE, !.outages = @ + 1]
    /\ nats' = [nats EXCEPT !.connection_ = IF @ = "CONNECTED" THEN "RECONNECTING" ELSE @]
    /\ UNCHANGED <<connection_mutex_, nats_pc, nats_log>>

BusUp ==
    /\ UNCHANGED <<sysVars, procVars, batchVars, mgrVars, compVars, frameVars, inferVars>>
    /\ Alive
    /\ ~bus.reachable
    /\ bus' = [bus EXCEPT !.reachable = TRUE]
    /\ UNCHANGED <<nats, connection_mutex_, nats_pc, nats_log>>

\* The library's own reconnect (natsOptions_SetMaxReconnect(options_, 3))
\* succeeds.
LibraryReconnected ==
    /\ UNCHANGED <<sysVars, procVars, batchVars, mgrVars, compVars, frameVars, inferVars>>
    /\ Alive
    /\ nats.connection_ = "RECONNECTING" /\ bus.reachable
    /\ nats' = [nats EXCEPT !.connection_ = "CONNECTED"]
    /\ UNCHANGED <<connection_mutex_, nats_pc, bus, nats_log>>

\* The library's own reconnect gives up and closes the connection.
LibraryGaveUp ==
    /\ UNCHANGED <<sysVars, procVars, batchVars, mgrVars, compVars, frameVars, inferVars>>
    /\ Alive
    /\ nats.connection_ = "RECONNECTING"
    /\ nats' = [nats EXCEPT !.connection_ = "CLOSED"]
    /\ UNCHANGED <<connection_mutex_, nats_pc, bus, nats_log>>

\* ---- the publishing thread
\* What a Publish or PublishRaw call that returns leaves in nats_log.
Returns(call, connected, ok) ==
    [call EXCEPT !.done = TRUE, !.connected = connected, !.ok = ok]

\* The result of Publish when IsConnected() is false: MakeOk().
SkipResult_Error == FALSE

SkipResult == TRUE

\* The publisher after a Publish that skipped the message.
Skipped_Counted(n) == [n EXCEPT !.messages_published_ = @ + 1]

Skipped(n) == n

\* Publish up to the first test of IsConnected: the read of state_.
PublishBegin ==
    /\ UNCHANGED <<sysVars, procVars, batchVars, mgrVars, compVars, frameVars, inferVars>>
    /\ Alive
    /\ nats_pc.pub = "Idle"
    /\ nats.messages_published_ < MaxPublished
    /\ IF nats.state_ # "Connected"
       THEN /\ nats_log' = [nats_log EXCEPT
                               !.publish = Returns(PublishCall("Publish", nats, bus,
                                                               nats_log.disconnected),
                                                   FALSE, SkipResult)]
            /\ nats' = Skipped(nats)
            /\ UNCHANGED nats_pc
       ELSE /\ nats_log' = [nats_log EXCEPT
                               !.publish = PublishCall("Publish", nats, bus,
                                                       nats_log.disconnected)]
            /\ nats_pc' = [nats_pc EXCEPT !.pub = "IsConnected"]
            /\ UNCHANGED nats
    /\ UNCHANGED <<connection_mutex_, bus>>

\* IsConnected under connection_mutex_, and the return of Publish when it is
\* false.
PublishIsConnected ==
    /\ UNCHANGED <<sysVars, procVars, batchVars, mgrVars, compVars, frameVars, inferVars>>
    /\ Alive
    /\ nats_pc.pub = "IsConnected"
    /\ connection_mutex_ = "free"
    /\ IF nats.connection_ = "CONNECTED"
       THEN /\ nats_log' = [nats_log EXCEPT !.publish.connected = TRUE]
            /\ nats_pc' = [nats_pc EXCEPT !.pub = "PublishRaw"]
       ELSE /\ nats_log' = [nats_log EXCEPT
                               !.publish = Returns(@, FALSE, SkipResult)]
            /\ nats_pc' = [nats_pc EXCEPT !.pub = "Idle"]
    /\ nats' = IF nats.connection_ = "CONNECTED" THEN nats ELSE Skipped(nats)
    /\ UNCHANGED <<connection_mutex_, bus>>

\* A call of PublishRaw itself.
PublishRawBegin ==
    /\ UNCHANGED <<sysVars, procVars, batchVars, mgrVars, compVars, frameVars, inferVars>>
    /\ Alive
    /\ nats_pc.pub = "Idle"
    /\ nats.messages_published_ < MaxPublished
    /\ nats_log' = [nats_log EXCEPT
                       !.publish = PublishCall("PublishRaw", nats, bus,
                                               nats_log.disconnected)]
    /\ nats_pc' = [nats_pc EXCEPT !.pub = "PublishRaw"]
    /\ UNCHANGED <<nats, connection_mutex_, bus>>

\* PublishRaw from the lock to the call of natsConnection_PublishString.
PublishRawLocked ==
    /\ UNCHANGED <<sysVars, procVars, batchVars, mgrVars, compVars, frameVars, inferVars>>
    /\ Alive
    /\ nats_pc.pub = "PublishRaw"
    /\ connection_mutex_ = "free"
    /\ IF nats.state_ # "Connected" \/ nats.connection_ = "null"
       THEN /\ nats_log' = [nats_log EXCEPT
                               !.publish = Returns(@, FALSE, TRUE)]
            /\ nats_pc' = [nats_pc EXCEPT !.pub = "Idle"]
            /\ UNCHANGED <<nats, connection_mutex_>>
       ELSE IF nats.connection_ # "CONNECTED"
       THEN LET left == StartBackgroundReconnect([nats EXCEPT !.state_ = "Disconnected"],
                                                 nats_pc.rt)
            IN  /\ nats' = left.nats
                /\ nats_pc' = [nats_pc EXCEPT !.pub = "Idle", !.rt = left.rt]
                /\ nats_log' = [nats_log EXCEPT
                                   !.publish = IF left.terminated THEN @
                                               ELSE Returns(@, FALSE, TRUE),
                                   !.terminated = left.terminated]
                /\ UNCHANGED connection_mutex_
       ELSE /\ connection_mutex_' = "pub"
            /\ nats_pc' = [nats_pc EXCEPT !.pub = "PublishString"]
            /\ UNCHANGED <<nats, nats_log>>
    /\ UNCHANGED bus

\* natsConnection_PublishString and the rest of PublishRaw: a connection
\* that is up takes the message or refuses it, one the library is
\* reconnecting buffers it (natsOptions_SetReconnectBufSize), a closed one
\* refuses it.
PublishString ==
    /\ UNCHANGED <<sysVars, procVars, batchVars, mgrVars, compVars, frameVars, inferVars>>
    /\ Alive
    /\ nats_pc.pub = "PublishString"
    /\ \E accepted \in BOOLEAN :
           LET status == nats.connection_
               ok == accepted /\ status # "CLOSED"
           IN  /\ nats' = IF ok
                          THEN [nats EXCEPT !.messages_published_ = @ + 1,
                                            !.last_publish_time_ = nats.messages_published_ + 1]
                          ELSE nats
               /\ bus' = IF ok /\ status = "CONNECTED" THEN [bus EXCEPT !.sent = @ + 1]
                         ELSE IF ok THEN [bus EXCEPT !.buffered = @ + 1]
                         ELSE bus
               /\ nats_log' = [nats_log EXCEPT
                                  !.publish = [Returns(@, TRUE, ok) EXCEPT
                                                  !.sent = ok /\ status = "CONNECTED",
                                                  !.buffered = ok /\ status # "CONNECTED"]]
    /\ connection_mutex_' = "free"
    /\ nats_pc' = [nats_pc EXCEPT !.pub = "Idle"]

\* ---- the controlling thread
\* A call of Connect, Disconnect or ForceReconnect begins.
ControlCall(op, pc) ==
    /\ Alive
    /\ nats_pc.ctl = "Idle"
    /\ nats_pc' = [nats_pc EXCEPT !.ctl = pc]
    /\ nats_log' = [nats_log EXCEPT !.ctl_op = op, !.disconnected = FALSE,
                                    !.connect_failed = FALSE]
    /\ UNCHANGED <<nats, connection_mutex_, bus>>

Connect ==
    /\ UNCHANGED <<sysVars, procVars, batchVars, mgrVars, compVars, frameVars, inferVars>>
    /\ ControlCall("Connect", "Connect")

Disconnect ==
    /\ UNCHANGED <<sysVars, procVars, batchVars, mgrVars, compVars, frameVars, inferVars>>
    /\ ControlCall("Disconnect", "Stop")

ForceReconnect ==
    /\ UNCHANGED <<sysVars, procVars, batchVars, mgrVars, compVars, frameVars, inferVars>>
    /\ ControlCall("ForceReconnect", "Stop")

\* StopBackgroundReconnect up to the join.
StopBackgroundReconnect ==
    /\ UNCHANGED <<sysVars, procVars, batchVars, mgrVars, compVars, frameVars, inferVars>>
    /\ Alive
    /\ nats_pc.ctl = "Stop"
    /\ IF ~nats.reconnect_thread_running_
       THEN /\ nats_pc' = [nats_pc EXCEPT !.ctl = "Close"]
            /\ UNCHANGED nats
       ELSE /\ nats' = [nats EXCEPT !.reconnect_thread_running_ = FALSE]
            /\ nats_pc' = [nats_pc EXCEPT !.ctl = "Join"]
    /\ UNCHANGED <<connection_mutex_, bus, nats_log>>

\* reconnect_thread_.join() returns.
JoinReconnectThread ==
    /\ UNCHANGED <<sysVars, procVars, batchVars, mgrVars, compVars, frameVars, inferVars>>
    /\ Alive
    /\ nats_pc.ctl = "Join"
    /\ nats_pc.rt = "Finished"
    /\ nats_pc' = [nats_pc EXCEPT !.ctl = "Close", !.rt = "None"]
    /\ UNCHANGED <<nats, connection_mutex_, bus, nats_log>>

\* Disconnect under connection_mutex_; ForceReconnect goes on to Connect.
CloseConnection ==
    /\ UNCHANGED <<sysVars, procVars, batchVars, mgrVars, compVars, frameVars, inferVars>>
    /\ Alive
    /\ nats_pc.ctl = "Close"
    /\ connection_mutex_ = "free"
    /\ nats' = [nats EXCEPT !.connection_ = "null", !.state_ = "Disconnected"]
    /\ IF nats_log.ctl_op = "Disconnect"
       THEN /\ nats_pc' = [nats_pc EXCEPT !.ctl = "Idle"]
            /\ nats_log' = [nats_log EXCEPT !.disconnected = TRUE]
       ELSE /\ nats_pc' = [nats_pc EXCEPT !.ctl = "Connect"]
            /\ UNCHANGED nats_log
    /\ UNCHANGED <<connection_mutex_, bus>>

\* ConnectInternal of the controlling thread takes connection_mutex_.
ConnectLocked ==
    /\ UNCHANGED <<sysVars, procVars, batchVars, mgrVars, compVars, frameVars, inferVars>>
    /\ Alive
    /\ nats_pc.ctl = "Connect"
    /\ connection_mutex_ = "free"
    /\ IF AlreadyConnected(nats)
       THEN /\ nats_pc' = [nats_pc EXCEPT !.ctl = "Idle"]
            /\ UNCHANGED <<nats, connection_mutex_>>
       ELSE /\ nats' = BeginConnect(nats)
            /\ connection_mutex_' = "ctl"
            /\ nats_pc' = [nats_pc EXCEPT !.ctl = "Connecting"]
    /\ UNCHANGED <<bus, nats_log>>

\* natsConnection_Connect returns to the controlling thread.
ConnectReturned ==
    /\ UNCHANGED <<sysVars, procVars, batchVars, mgrVars, compVars, frameVars, inferVars>>
    /\ Alive
    /\ nats_pc.ctl = "Connecting"
    /\ LET left == EndConnect(nats, nats_pc.rt, bus.reachable) IN
       /\ nats' = left.nats
       /\ nats_pc' = [nats_pc EXCEPT !.ctl = "Idle", !.rt = left.rt]
       /\ nats_log' = [nats_log EXCEPT !.connect_failed = ~bus.reachable,
                                       !.terminated = left.terminated]
    /\ connection_mutex_' = "free"
    /\ UNCHANGED bus

\* ---- the reconnect thread (ReconnectThreadFunc)
\* The loop test and wait_for: the thread leaves when it was told to stop.
ReconnectWaited ==
    /\ UNCHANGED <<sysVars, procVars, batchVars, mgrVars, compVars, frameVars, inferVars>>
    /\ Alive
    /\ nats_pc.rt = "Wait"
    /\ IF nats.reconnect_thread_running_
              /\ ~(kMaxReconnectAttemptsNats > 0
                      /\ nats.reconnect_attempts_ >= kMaxReconnectAttemptsNats)
       THEN /\ nats_pc' = [nats_pc EXCEPT !.rt = "Check"]
            /\ UNCHANGED nats
       ELSE /\ nats_pc' = [nats_pc EXCEPT !.rt = "Finished"]
            /\ nats' = ThreadExit(nats)
    /\ UNCHANGED <<connection_mutex_, bus, nats_log>>

\* "Already connected?" and the count of the attempt.
ReconnectChecked ==
    /\ UNCHANGED <<sysVars, procVars, batchVars, mgrVars, compVars, frameVars, inferVars>>
    /\ Alive
    /\ nats_pc.rt = "Check"
    /\ nats.state_ # "Connected" \/ connection_mutex_ = "free"
    /\ IF ~nats.reconnect_thread_running_
       THEN /\ nats_pc' = [nats_pc EXCEPT !.rt = "Finished"]
            /\ nats' = ThreadExit(nats)
       ELSE IF IsConnected(nats)
       THEN /\ nats_pc' = [nats_pc EXCEPT !.rt = "Finished"]
            /\ nats' = ThreadExit(nats)
       ELSE /\ nats_pc' = [nats_pc EXCEPT !.rt = "Connect"]
            /\ nats' = [nats EXCEPT !.reconnect_attempts_ =
                                        IF @ < MaxAttempts THEN @ + 1 ELSE @]
    /\ UNCHANGED <<connection_mutex_, bus, nats_log>>

\* ConnectInternal of the reconnect thread takes connection_mutex_.
ReconnectLocked ==
    /\ UNCHANGED <<sysVars, procVars, batchVars, mgrVars, compVars, frameVars, inferVars>>
    /\ Alive
    /\ nats_pc.rt = "Connect"
    /\ connection_mutex_ = "free"
    /\ IF AlreadyConnected(nats)
       THEN /\ nats_pc' = [nats_pc EXCEPT !.rt = "Finished"]
            /\ nats' = ThreadExit(nats)
            /\ UNCHANGED connection_mutex_
       ELSE /\ nats' = BeginConnect(nats)
            /\ connection_mutex_' = "rt"
            /\ nats_pc' = [nats_pc EXCEPT !.rt = "Connecting"]
    /\ UNCHANGED <<bus, nats_log>>

\* natsConnection_Connect returns to the reconnect thread: it leaves on
\* success and goes round the loop on failure.
ReconnectReturned ==
    /\ UNCHANGED <<sysVars, procVars, batchVars, mgrVars, compVars, frameVars, inferVars>>
    /\ Alive
    /\ nats_pc.rt = "Connecting"
    /\ LET left == EndConnect(nats, "Connecting", bus.reachable) IN
       /\ nats' = IF bus.reachable THEN ThreadExit(left.nats) ELSE left.nats
       /\ nats_pc' = [nats_pc EXCEPT !.rt = IF bus.reachable THEN "Finished" ELSE "Wait"]
       /\ nats_log' = [nats_log EXCEPT
                          !.connect_failed = @ /\ ~bus.reachable,
                          !.terminated = left.terminated]
    /\ connection_mutex_' = "free"
    /\ UNCHANGED bus

BusNext == BusDown \/ BusUp

LibraryNext == LibraryReconnected \/ LibraryGaveUp

PublishNext ==
    \/ PublishBegin
    \/ PublishIsConnected
    \/ PublishRawBegin
    \/ PublishRawLocked
    \/ PublishString

ControlNext ==
    \/ Connect
    \/ Disconnect
    \/ ForceReconnect
    \/ StopBackgroundReconnect
    \/ JoinReconnectThread
    \/ CloseConnection
    \/ ConnectLocked
    \/ ConnectReturned

ReconnectNext ==
    \/ ReconnectWaited
    \/ ReconnectChecked
    \/ ReconnectLocked
    \/ ReconnectReturned

NatsNext == BusNext \/ LibraryNext \/ PublishNext \/ ControlNext \/ ReconnectNext

(***************************************************************************)
(*                          HAILO INFERENCE                                *)
(***************************************************************************)
\* Scores and thresholds are in hundredths, coordinates in pixels.  A
\* coordinate of the original frame is a fraction over the numerator of the
\* letterbox scale; static_cast<int> truncates it toward zero.
Min(a, b) == IF a < b THEN a ELSE b

Trunc(n, d) == IF n >= 0 THEN n \div d ELSE -((-n) \div d)

\* HailoInference::LetterboxResize for a source of src_w x src_h and a model
\* input of dst_w x dst_h: the scale as num / den, and the padding.
LetterboxResize(src_w, src_h, dst_w, dst_h) ==
    LET by_width == dst_w * src_h <= dst_h * src_w
        num == IF by_width THEN dst_w ELSE dst_h
        den == IF by_width THEN src_w ELSE src_h
        new_w == (src_w * num) \div den
        new_h == (src_h * num) \div den
    IN  [num |-> num, den |-> den,
         pad_x |-> (dst_w - new_w) \div 2, pad_y |-> (dst_h - new_h) \div 2]

\* The letterbox RunInference decodes with: none when the frame has the
\* size of the model input.
LetterboxOf(frame) ==
    IF frame.width # InputSize \/ frame.height # InputSize
    THEN LetterboxResize(frame.width, frame.height, InputSize, InputSize)
    ELSE [num |-> 1, den |-> 1, pad_x |-> 0, pad_y |-> 0]

\* The frames of the model: the size of the model input, a wide frame, a
\* small one and a large one.
FrameSizes ==
    {[width |-> 8, height |-> 8], [width |-> 8, height |-> 4],
     [width |-> 4, height |-> 4], [width |-> 16, height |-> 8]}

\* The thresholds a stream is configured with.
Thresholds == {25, 50}

\* What the device reports for one slot or one grid cell: a box
\* <<x1, y1, x2, y2>> in pixels of the model input, and a score.
Slot(box, score) == [box |-> box, score |-> score]

Slots ==
    {Slot(<<1, 3, 5, 5>>, 90),      \* inside the picture
     Slot(<<1, 3, 5, 6>>, 60),      \* over the first one
     Slot(<<3, 3, 4, 4>>, 60),      \* one pixel of the model input
     Slot(<<-2, 2, 3, 5>>, 30),     \* starts left of the input
     Slot(<<6, 3, 10, 6>>, 50),     \* ends right of the input
     Slot(<<2, 0, 6, 1>>, 90),      \* in the padding above a wide frame
     Slot(<<2, 7, 6, 8>>, 30),      \* in the padding below a wide frame
     Slot(<<1, 3, 5, 5>>, 20)}      \* under every threshold

SlotSeqs(n) == UNION {[1..k -> Slots] : k \in 1..n}

\* The hardware NMS reports coordinates normalised to the model input.
Normalised(slot) == \A c \in 1..4 : slot.box[c] >= 0 /\ slot.box[c] <= InputSize

\* The orders std::sort can leave the indices in: by score, descending, equal
\* scores in any order.
SortedOrders(scores) ==
    {o \in [1..Len(scores) -> 1..Len(scores)] :
        /\ \A i, j \in 1..Len(scores) : i # j => o[i] # o[j]
        /\ \A i, j \in 1..Len(scores) : i < j => scores[o[i]] >= scores[o[j]]}

\* ApplyNMS: the IoU of two boxes is over the threshold.
IoUExceeds_OverFirst(box_i, box_j, iou_threshold) ==
    LET inter_w == Max(0, Min(box_i[3], box_j[3]) - Max(box_i[1], box_j[1]))
        inter_h == Max(0, Min(box_i[4], box_j[4]) - Max(box_i[2], box_j[2]))
        area_i == (box_i[3] - box_i[1]) * (box_i[4] - box_i[2])
    IN  area_i > 0 /\ inter_w * inter_h * 100 > iou_threshold * area_i

IoUExceeds(box_i, box_j, iou_threshold) ==
    LET inter_w == Max(0, Min(box_i[3], box_j[3]) - Max(box_i[1], box_j[1]))
        inter_h == Max(0, Min(box_i[4], box_j[4]) - Max(box_i[2], box_j[2]))
        inter_area == inter_w * inter_h
        area_i == (box_i[3] - box_i[1]) * (box_i[4] - box_i[2])
        area_j == (box_j[3] - box_j[1]) * (box_j[4] - box_j[2])
        union_area == area_i + area_j - inter_area
    IN  union_area > 0 /\ inter_area * 100 > iou_threshold * union_area

\* ApplyNMS from position k of the sorted indices on.
RECURSIVE KeepFrom(_, _, _, _, _, _)
KeepFrom(boxes, indices, k, keep, suppressed, iou_threshold) ==
    IF k > Len(indices) THEN keep
    ELSE IF indices[k] \in suppressed
    THEN KeepFrom(boxes, indices, k + 1, keep, suppressed, iou_threshold)
    ELSE KeepFrom(boxes, indices, k + 1, Append(keep, indices[k]),
                  suppressed \cup
                      {jdx \in 1..Len(boxes) :
                          /\ jdx # indices[k] /\ jdx \notin suppressed
                          /\ IoUExceeds(boxes[indices[k]], boxes[jdx], iou_threshold)},
                  iou_threshold)

\* HailoInference::ApplyNMS, with the sorted indices std::sort left.
ApplyNMS(boxes, indices, iou_threshold) ==
    KeepFrom(boxes, indices, 1, <<>>, {}, iou_threshold)

\* ParseNmsOutput for one slot that passed the threshold: the box is
\* truncated, and then clamped.
NmsDetection(slot, frame, letterbox) ==
    LET x1 == (slot.box[1] - letterbox.pad_x) * letterbox.den
        y1 == (slot.box[2] - letterbox.pad_y) * letterbox.den
        x2 == (slot.box[3] - letterbox.pad_x) * letterbox.den
        y2 == (slot.box[4] - letterbox.pad_y) * letterbox.den
        x == Max(0, Trunc(x1, letterbox.num))
        y == Max(0, Trunc(y1, letterbox.num))
    IN  [confidence |-> slot.score,
         bbox |-> [x |-> x, y |-> y,
                   width |-> Min(Trunc(x2 - x1, letterbox.num), frame.width - x),
                   height |-> Min(Trunc(y2 - y1, letterbox.num), frame.height - y)]]

\* HailoInference::ParseNmsOutput.
ParseNmsOutput(slots, confidence_threshold, frame, letterbox) ==
    LET Passes(slot) == ~(slot.score < confidence_threshold)
        passed == SelectSeq(slots, Passes)
    IN  [i \in 1..Len(passed) |-> NmsDetection(passed[i], frame, letterbox)]

\* ParseRawYoloOutput for one box ApplyNMS kept: the corners are clamped,
\* and then truncated.
RawDetection(slot, frame, letterbox) ==
    LET Clamped(v, limit) == Max(0, Min(limit * letterbox.num, v))
        x1 == Clamped((slot.box[1] - letterbox.pad_x) * letterbox.den, frame.width)
        y1 == Clamped((slot.box[2] - letterbox.pad_y) * letterbox.den, frame.height)
        x2 == Clamped((slot.box[3] - letterbox.pad_x) * letterbox.den, frame.width)
        y2 == Clamped((slot.box[4] - letterbox.pad_y) * letterbox.den, frame.height)
    IN  [confidence |-> slot.score,
         bbox |-> [x |-> Trunc(x1, letterbox.num), y |-> Trunc(y1, letterbox.num),
                   width |-> Trunc(x2 - x1, letterbox.num),
                   height |-> Trunc(y2 - y1, letterbox.num)]]

\* ParseRawYoloOutput up to ApplyNMS: the cells over the threshold whose box
\* touches the model input and has a size.
RawCandidates(slots, confidence_threshold) ==
    LET Passes(slot) ==
            /\ ~(slot.score < confidence_threshold)
            /\ ~(slot.box[3] <= 0 \/ slot.box[4] <= 0
                    \/ slot.box[1] >= InputSize \/ slot.box[2] >= InputSize)
            /\ ~(slot.box[3] - slot.box[1] <= 0 \/ slot.box[4] - slot.box[2] <= 0)
    IN  SelectSeq(slots, Passes)

\* HailoInference::ParseRawYoloOutput: every result std::sort allows.
ParseRawYoloOutput(slots, confidence_threshold, frame, letterbox) ==
    LET all == RawCandidates(slots, confidence_threshold)
        all_boxes == [i \in 1..Len(all) |-> all[i].box]
        all_scores == [i \in 1..Len(all) |-> all[i].score]
    IN  {[k \in 1..Len(keep_indices) |-> RawDetection(all[keep_indices[k]], frame, letterbox)] :
            keep_indices \in {ApplyNMS(all_boxes, indices, kIouThreshold) :
                                 indices \in SortedOrders(all_scores)}}

\* The parsers behind RunInference and RunBatchInference: the results the
\* call can return for what the device reported.
Parsed(path, slots, confidence_threshold, frame) ==
    IF path = "raw"
    THEN ParseRawYoloOutput(slots, confidence_threshold, frame, LetterboxOf(frame))
    ELSE {ParseNmsOutput(slots, confidence_threshold, frame, LetterboxOf(frame))}

\* What the device can report on a path.
Reported(path, slots) ==
    path = "nms" => \A i \in 1..Len(slots) : Normalised(slots[i])

\* What a stream is handed for one frame: threshold is the stream's
\* confidence_threshold.
Delivery(threshold, frame, detections) ==
    [threshold |-> threshold, frame |-> frame, detections |-> detections]

InitInferVars == infer_call = [op |-> "none", path |-> "none", delivered |-> <<>>]

\* Each run of the decoders makes one call.
\* StreamProcessor::OnNewSample runs the frame of its stream through
\* RunInference with the threshold of the stream.
RunInference ==
    /\ UNCHANGED <<sysVars, procVars, batchVars, mgrVars, compVars, frameVars, natsVars>>
    /\ infer_call.op = "none"
    /\ \E path \in {"nms", "raw"}, frame \in FrameSizes, threshold \in Thresholds,
          slots \in SlotSeqs(MaxSlots) :
           /\ Reported(path, slots)
           /\ \E detections \in Parsed(path, slots, threshold, frame) :
                  infer_call' = [op |-> "RunInference", path |-> path, slots |-> <<slots>>,
                                 delivered |-> <<Delivery(threshold, frame, detections)>>]

\* BatchInferenceManager::ProcessBatch runs the frames of its batch, one slot
\* reported for each, through RunBatchInference with the threshold of the
\* manager, and hands each stream its result.
ProcessBatchResults ==
    /\ UNCHANGED <<sysVars, procVars, batchVars, mgrVars, compVars, frameVars, natsVars>>
    /\ infer_call.op = "none"
    /\ \E path \in {"nms", "raw"}, frame \in FrameSizes, n \in 1..BatchSize :
       \E thresholds \in [1..n -> Thresholds], slots \in [1..n -> SlotSeqs(1)] :
           /\ \A i \in 1..n : Reported(path, slots[i])
           /\ \E detections \in [1..n -> UNION {Parsed(path, slots[i], confidence_threshold_, frame) :
                                                   i \in 1..n}] :
                  /\ \A i \in 1..n :
                         detections[i] \in Parsed(path, slots[i], confidence_threshold_, frame)
                  /\ infer_call' = [op |-> "RunBatchInference", path |-> path, slots |-> slots,
                                    delivered |-> [i \in 1..n |->
                                                      Delivery(thresholds[i], frame,
                                                               detections[i])]]

\* ApplyNMS over the boxes of a frame, and over the boxes it kept.
ApplyNMSTwice ==
    /\ UNCHANGED <<sysVars, procVars, batchVars, mgrVars, compVars, frameVars, natsVars>>
    /\ infer_call.op = "none"
    /\ \E slots \in SlotSeqs(MaxBoxes) :
       \E indices \in SortedOrders([i \in 1..Len(slots) |-> slots[i].score]) :
           LET keep == ApplyNMS([i \in 1..Len(slots) |-> slots[i].box], indices, kIouThreshold)
               kept == [k \in 1..Len(keep) |-> slots[keep[k]]]
           IN  \E again \in SortedOrders([k \in 1..Len(kept) |-> kept[k].score]) :
                   infer_call' = [op |-> "ApplyNMS", path |-> "raw", slots |-> slots,
                                  keep |-> keep, kept |-> kept,
                                  keep_again |-> ApplyNMS([k \in 1..Len(kept) |-> kept[k].box],
                                                          again, kIouThreshold),
                                  delivered |-> <<>>]

\* HailoInference::Initialize, the classification of the outputs:
\* number_of_classes is nms_shape.number_of_classes of the first output,
\* num_outputs the number of output vstreams.
OutputClassification(number_of_classes, num_outputs) ==
    LET nms == num_outputs > 0 /\ number_of_classes > 0 IN
    IF num_outputs > 1
    THEN [is_nms_output_ |-> FALSE, is_raw_yolo_output_ |-> TRUE]
    ELSE [is_nms_output_ |-> nms, is_raw_yolo_output_ |-> FALSE]

\* The parser RunInference and RunBatchInference use ("none": the result
\* stays empty).
DecodePath(engine) ==
    IF engine.is_raw_yolo_output_ THEN "raw"
    ELSE IF engine.is_nms_output_ THEN "nms"
    ELSE "none"

\* What the model files report: the class count of the first output (0 when
\* it has no NMS metadata or there is no output) and the number of outputs.
OutputInfos ==
    {[number_of_classes |-> c, num_outputs |-> n] :
         c \in {0, 1, 80}, n \in {1, 2, 9}}
        \cup {[number_of_classes |-> 0, num_outputs |-> 0]}

Initialize ==
    /\ UNCHANGED <<sysVars, procVars, batchVars, mgrVars, compVars, frameVars, natsVars>>
    /\ infer_call.op = "none"
    /\ \E info \in OutputInfos :
           infer_call' = [op |-> "Initialize", info |-> info, delivered |-> <<>>,
                          path |-> DecodePath(OutputClassification(info.number_of_classes,
                                                                   info.num_outputs))]

\* ParseRawYoloOutput, the keypoints of grid cell pixel_idx: the indices into
\* kp_data it reads for each keypoint, as <<x, y, visibility>>.
KeypointIndices(num_keypoints, pixel_idx) ==
    LET model_num_keypoints == IF num_keypoints > 0 THEN num_keypoints ELSE 4
        kp_base == pixel_idx * 12
    IN  [k \in 1..model_num_keypoints |->
            <<kp_base + (k - 1) * 3, kp_base + (k - 1) * 3 + 1, kp_base + (k - 1) * 3 + 2>>]

\* The keypoints of one cell of a grid of MaxCells cells.
ParseRawYoloKeypoints ==
    /\ UNCHANGED <<sysVars, procVars, batchVars, mgrVars, compVars, frameVars, natsVars>>
    /\ infer_call.op = "none"
    /\ \E num_keypoints \in {0, 2, 4, 5, 17}, pixel_idx \in 0..(MaxCells - 1) :
           infer_call' = [op |-> "ParseRawYoloKeypoints", path |-> "raw", delivered |-> <<>>,
                          num_keypoints_ |-> num_keypoints, pixel_idx |-> pixel_idx,
                          read |-> KeypointIndices(num_keypoints, pixel_idx)]

InferNext ==
    \/ RunInference \/ ProcessBatchResults \/ ApplyNMSTwice
    \/ Initialize \/ ParseRawYoloKeypoints

(***************************************************************************)
(*                          ENGINE REGISTRY                                *)
(***************************************************************************)
\* The threads that call GetInstance and the model files they name.
Callers == 1..NumCallers

HefPaths == {"a.hef", "b.hef"}

\* instances_ is a function from paths to engines; engines are numbered in
\* the order of their construction (0: no engine).  static_mutex_ is the
\* thread that holds it (0: free).  A thread is "idle" or stands in
\* GetInstance after the lookup ("initialize"); its last call is in calls.
NoCall == [path |-> "none", result |-> "none", engine |-> 0, entry_left |-> FALSE]

InitHailo ==
    hailo = [instances_ |-> <<>>, static_mutex_ |-> 0, created |-> 0,
             pc |-> [t \in Callers |-> "idle"], calls |-> [t \in Callers |-> NoCall],
             handed |-> {}]

\* std::lock_guard<std::mutex> lock(static_mutex_) can be taken.
StaticMutexFree_NoLock(h) == TRUE

StaticMutexFree(h) == h.static_mutex_ = 0

\* GetInstance up to Initialize: the lock, and the engine of the registry
\* when there is one.
GetInstanceFind(t, hef_path) ==
    /\ UNCHANGED <<procVars, batchVars, mgrVars, compVars, frameVars, natsVars, inferVars>>
    /\ UNCHANGED <<sproc, mloop, gcb, device, grpc>>
    /\ hailo.pc[t] = "idle"
    /\ StaticMutexFree(hailo)
    /\ IF hef_path \in DOMAIN hailo.instances_
       THEN hailo' = [hailo EXCEPT
                         !.calls[t] = [path |-> hef_path, result |-> "ok",
                                       engine |-> hailo.instances_[hef_path],
                                       entry_left |-> TRUE],
                         !.handed = @ \cup {[path |-> hef_path,
                                             engine |-> hailo.instances_[hef_path]]}]
       ELSE /\ hailo.created < MaxEngines
            /\ hailo' = [hailo EXCEPT
                             !.static_mutex_ = t,
                             !.created = @ + 1,
                             !.pc[t] = "initialize",
                             !.calls[t] = [path |-> hef_path, result |-> "none",
                                           engine |-> hailo.created + 1,
                                           entry_left |-> FALSE]]

\* Initialize of the new engine, the entry in instances_, the return.
GetInstanceInitialize(t, initialized) ==
    /\ UNCHANGED <<procVars, batchVars, mgrVars, compVars, frameVars, natsVars, inferVars>>
    /\ UNCHANGED <<sproc, mloop, gcb, device, grpc>>
    /\ hailo.pc[t] = "initialize"
    /\ LET hef_path == hailo.calls[t].path
           engine == hailo.calls[t].engine
           instances == IF initialized
                        THEN [p \in DOMAIN hailo.instances_ \cup {hef_path} |->
                                 IF p = hef_path THEN engine ELSE hailo.instances_[p]]
                        ELSE hailo.instances_
       IN  hailo' = [hailo EXCEPT
                        !.instances_ = instances,
                        !.static_mutex_ = 0,
                        !.pc[t] = "idle",
                        !.calls[t] = [path |-> hef_path,
                                      result |-> IF initialized THEN "ok" ELSE "error",
                                      engine |-> IF initialized THEN engine ELSE 0,
                                      entry_left |-> hef_path \in DOMAIN instances],
                        !.handed = IF initialized
                                   THEN @ \cup {[path |-> hef_path, engine |-> engine]}
                                   ELSE @]

EnginesNext ==
    \E t \in Callers :
        \/ \E hef_path \in HefPaths : GetInstanceFind(t, hef_path)
        \/ \E initialized \in BOOLEAN :
               GetInstanceInitialize(t, initialized)

(***************************************************************************)
(*                          STOP AND HANDLERS                              *)
(***************************************************************************)
\* The processor, the thread that calls Stop or Start ("ctl": a gRPC handler
\* or the manager), the event-loop thread that runs the bus and timer
\* handlers ("loop"), and `stopped`: Stop has returned and no Start, Update
\* or ClearInference was called since.  The two threads share the processor
\* with no lock: state_ is a std::atomic, reconnect_source_id_ a plain guint.
InitSproc ==
    sproc = [p |-> NewProcessor, ctl |-> "idle", loop |-> "idle", stopped |-> FALSE]

\* Start, and the Start that ends Update and ClearInference, on the calling
\* thread.
SprocStart ==
    /\ UNCHANGED <<procVars, batchVars, mgrVars, compVars, frameVars, natsVars, inferVars>>
    /\ UNCHANGED <<hailo, mloop, gcb, device, grpc>>
    /\ sproc.ctl = "idle"
    /\ \E create_ok, play_ok \in BOOLEAN :
           sproc' = [sproc EXCEPT !.p = Start(Enter(sproc.p), create_ok, play_ok),
                                  !.stopped = FALSE]

\* Stop: if (state_ == kStopped) return;
StopTest ==
    /\ UNCHANGED <<procVars, batchVars, mgrVars, compVars, frameVars, natsVars, inferVars>>
    /\ UNCHANGED <<hailo, mloop, gcb, device, grpc>>
    /\ sproc.ctl = "idle"
    /\ IF sproc.p.state_ = "Stopped"
       THEN sproc' = [sproc EXCEPT !.stopped = TRUE]
       ELSE sproc' = [sproc EXCEPT !.p = Enter(@), !.ctl = "CancelReconnect"]

\* Stop: CancelReconnect();
StopCancelReconnect ==
    /\ UNCHANGED <<procVars, batchVars, mgrVars, compVars, frameVars, natsVars, inferVars>>
    /\ UNCHANGED <<hailo, mloop, gcb, device, grpc>>
    /\ sproc.ctl = "CancelReconnect"
    /\ sproc' = [sproc EXCEPT !.p = CancelReconnect(@), !.ctl = "DestroyPipeline"]

\* Stop: DestroyPipeline();
StopDestroyPipeline ==
    /\ UNCHANGED <<procVars, batchVars, mgrVars, compVars, frameVars, natsVars, inferVars>>
    /\ UNCHANGED <<hailo, mloop, gcb, device, grpc>>
    /\ sproc.ctl = "DestroyPipeline"
    /\ sproc' = [sproc EXCEPT !.p = DestroyPipeline(@), !.ctl = "SetState"]

\* Stop: SetState(kStopped); and the return.
StopSetState ==
    /\ UNCHANGED <<procVars, batchVars, mgrVars, compVars, frameVars, natsVars, inferVars>>
    /\ UNCHANGED <<hailo, mloop, gcb, device, grpc>>
    /\ sproc.ctl = "SetState"
    /\ sproc' = [sproc EXCEPT !.p = SetState(@, "Stopped"), !.ctl = "idle",
                              !.stopped = TRUE]

\* OnBusMessage, GST_MESSAGE_ERROR or GST_MESSAGE_EOS, up to the call of
\* ScheduleReconnect: the watch exists while the pipeline does.
BusMessageDestroyPipeline ==
    /\ UNCHANGED <<procVars, batchVars, mgrVars, compVars, frameVars, natsVars, inferVars>>
    /\ UNCHANGED <<hailo, mloop, gcb, device, grpc>>
    /\ sproc.loop = "idle"
    /\ sproc.p.pipeline_
    /\ sproc' = [sproc EXCEPT !.p = DestroyPipeline(Enter(@)), !.loop = "ScheduleReconnect"]

\* ScheduleReconnect: the test of state_ and the test of reconnect_attempts_.
ScheduleReconnectTest ==
    /\ UNCHANGED <<procVars, batchVars, mgrVars, compVars, frameVars, natsVars, inferVars>>
    /\ UNCHANGED <<hailo, mloop, gcb, device, grpc>>
    /\ sproc.loop = "ScheduleReconnect"
    /\ IF sproc.p.state_ = "Stopped"
       THEN sproc' = [sproc EXCEPT !.loop = "idle"]
       ELSE IF sproc.p.reconnect_attempts_ >= kMaxReconnectAttempts
       THEN sproc' = [sproc EXCEPT !.p = SetState(@, "Error"), !.loop = "idle"]
       ELSE sproc' = [sproc EXCEPT !.loop = "SetState"]

\* ScheduleReconnect: SetState(kReconnecting); ++reconnect_attempts_;
ScheduleReconnectSetState ==
    /\ UNCHANGED <<procVars, batchVars, mgrVars, compVars, frameVars, natsVars, inferVars>>
    /\ UNCHANGED <<hailo, mloop, gcb, device, grpc>>
    /\ sproc.loop = "SetState"
    /\ sproc' = [sproc EXCEPT
                    !.p = [SetState(@, "Reconnecting") EXCEPT !.reconnect_attempts_ = @ + 1],
                    !.loop = "g_timeout_add_seconds"]

\* ScheduleReconnect: reconnect_source_id_ = g_timeout_add_seconds(...)
ScheduleReconnectAddTimeout ==
    /\ UNCHANGED <<procVars, batchVars, mgrVars, compVars, frameVars, natsVars, inferVars>>
    /\ UNCHANGED <<hailo, mloop, gcb, device, grpc>>
    /\ sproc.loop = "g_timeout_add_seconds"
    /\ sproc' = [sproc EXCEPT !.p.reconnect_source_id_ = 1, !.loop = "idle"]

\* OnReconnectTimeout: the timer fired; self->reconnect_source_id_ = 0;
ReconnectTimeoutFired ==
    /\ UNCHANGED <<procVars, batchVars, mgrVars, compVars, frameVars, natsVars, inferVars>>
    /\ UNCHANGED <<hailo, mloop, gcb, device, grpc>>
    /\ sproc.loop = "idle"
    /\ sproc.p.reconnect_source_id_ > 0
    /\ sproc' = [sproc EXCEPT !.p = [Enter(@) EXCEPT !.reconnect_source_id_ = 0],
                              !.loop = "Start"]

\* OnReconnectTimeout: self->Start(), and ScheduleReconnect when it failed.
ReconnectTimeoutStart ==
    /\ UNCHANGED <<procVars, batchVars, mgrVars, compVars, frameVars, natsVars, inferVars>>
    /\ UNCHANGED <<hailo, mloop, gcb, device, grpc>>
    /\ sproc.loop = "Start"
    /\ \E create_ok, play_ok \in BOOLEAN :
           sproc' = [sproc EXCEPT
                        !.p = Start(@, create_ok, play_ok),
                        !.loop = IF StartOk(sproc.p, create_ok, play_ok)
                                 THEN "idle" ELSE "ScheduleReconnect"]

StopNext ==
    \/ SprocStart
    \/ StopTest
    \/ StopCancelReconnect
    \/ StopDestroyPipeline
    \/ StopSetState
    \/ BusMessageDestroyPipeline
    \/ ScheduleReconnectTest
    \/ ScheduleReconnectSetState
    \/ ScheduleReconnectAddTimeout
    \/ ReconnectTimeoutFired
    \/ ReconnectTimeoutStart

(***************************************************************************)
(*                          EVENT LOOP                                     *)
(***************************************************************************)
\* running_, the ids in streams_, main_loop_thread_ ("none": not joinable,
\* "created": started and not yet in g_main_loop_run, "running": in the loop,
\* "exited": the loop returned), the is_running flag of the GMainLoop
\* (g_main_loop_run sets it, g_main_loop_quit clears it), the position of the
\* thread that calls Start and Stop, and the number of Start calls so far.
InitMloop ==
    mloop = [running_ |-> FALSE, streams_ |-> {}, main_loop_thread_ |-> "none",
             is_running |-> FALSE, caller |-> "idle", starts |-> 0]

LoopStreamIds == 1..NumLoopStreams

\* StreamManager::Start: running_ = true and the std::thread.
ManagerStart ==
    /\ UNCHANGED <<procVars, batchVars, mgrVars, compVars, frameVars, natsVars, inferVars>>
    /\ UNCHANGED <<hailo, sproc, gcb, device, grpc>>
    /\ mloop.caller = "idle"
    /\ ~mloop.running_
    /\ mloop.starts < MaxStarts
    /\ mloop' = [mloop EXCEPT !.running_ = TRUE, !.main_loop_thread_ = "created",
                              !.starts = @ + 1]

\* AddStream: a processor enters streams_ (the manager need not be running).
ManagerAddStream ==
    /\ UNCHANGED <<procVars, batchVars, mgrVars, compVars, frameVars, natsVars, inferVars>>
    /\ UNCHANGED <<hailo, sproc, gcb, device, grpc>>
    /\ mloop.caller = "idle"
    /\ \E id \in LoopStreamIds \ mloop.streams_ :
           mloop' = [mloop EXCEPT !.streams_ = @ \cup {id}]

\* StreamManager::Stop: if (!running_.load()) return; running_ = false;
ManagerStopTest ==
    /\ UNCHANGED <<procVars, batchVars, mgrVars, compVars, frameVars, natsVars, inferVars>>
    /\ UNCHANGED <<hailo, sproc, gcb, device, grpc>>
    /\ mloop.caller = "idle"
    /\ IF mloop.running_
       THEN mloop' = [mloop EXCEPT !.running_ = FALSE, !.caller = "streams"]
       ELSE mloop' = mloop

\* Stop: every processor stopped, streams_.clear().
ManagerStopStreams ==
    /\ UNCHANGED <<procVars, batchVars, mgrVars, compVars, frameVars, natsVars, inferVars>>
    /\ UNCHANGED <<hailo, sproc, gcb, device, grpc>>
    /\ mloop.caller = "streams"
    /\ mloop' = [mloop EXCEPT !.streams_ = {}, !.caller = "quit"]

\* Stop: if (main_loop_ && g_main_loop_is_running(main_loop_)) g_main_loop_quit(main_loop_);
\* g_main_loop_quit clears is_running, so the flag is clear after this line
\* whether the quit was called or not.  (The first variant is a Stop that
\* waits until the thread has entered g_main_loop_run.)
ManagerStopQuit_AfterLoopEntered ==
    /\ UNCHANGED <<procVars, batchVars, mgrVars, compVars, frameVars, natsVars, inferVars>>
    /\ UNCHANGED <<hailo, sproc, gcb, device, grpc>>
    /\ mloop.caller = "quit"
    /\ mloop.main_loop_thread_ # "created"
    /\ mloop' = [mloop EXCEPT !.is_running = FALSE, !.caller = "join"]

ManagerStopQuit ==
    /\ UNCHANGED <<procVars, batchVars, mgrVars, compVars, frameVars, natsVars, inferVars>>
    /\ UNCHANGED <<hailo, sproc, gcb, device, grpc>>
    /\ mloop.caller = "quit"
    /\ mloop' = [mloop EXCEPT !.is_running = FALSE, !.caller = "join"]

\* Stop: if (main_loop_thread_.joinable()) main_loop_thread_.join();
ManagerStopJoin ==
    /\ UNCHANGED <<procVars, batchVars, mgrVars, compVars, frameVars, natsVars, inferVars>>
    /\ UNCHANGED <<hailo, sproc, gcb, device, grpc>>
    /\ mloop.caller = "join"
    /\ mloop.main_loop_thread_ \in {"none", "exited"}
    /\ mloop' = [mloop EXCEPT !.main_loop_thread_ = "none", !.caller = "disconnect"]

\* Stop: the publisher's Disconnect, and the return.
ManagerStopReturn ==
    /\ UNCHANGED <<procVars, batchVars, mgrVars, compVars, frameVars, natsVars, inferVars>>
    /\ UNCHANGED <<hailo, sproc, gcb, device, grpc>>
    /\ mloop.caller = "disconnect"
    /\ mloop' = [mloop EXCEPT !.caller = "idle"]

\* MainLoopThread: g_main_loop_run(main_loop_) is entered.
MainLoopThreadRun ==
    /\ UNCHANGED <<procVars, batchVars, mgrVars, compVars, frameVars, natsVars, inferVars>>
    /\ UNCHANGED <<hailo, sproc, gcb, device, grpc>>
    /\ mloop.main_loop_thread_ = "created"
    /\ mloop' = [mloop EXCEPT !.main_loop_thread_ = "running", !.is_running = TRUE]

\* MainLoopThread: g_main_loop_run returns once is_running is cleared.
MainLoopThreadExit ==
    /\ UNCHANGED <<procVars, batchVars, mgrVars, compVars, frameVars, natsVars, inferVars>>
    /\ UNCHANGED <<hailo, sproc, gcb, device, grpc>>
    /\ mloop.main_loop_thread_ = "running"
    /\ ~mloop.is_running
    /\ mloop' = [mloop EXCEPT !.main_loop_thread_ = "exited"]

ManagerStopSteps == ManagerStopStreams \/ ManagerStopQuit \/ ManagerStopJoin \/ ManagerStopReturn

MainLoopThread == MainLoopThreadRun \/ MainLoopThreadExit

LoopNext ==
    \/ ManagerStart
    \/ ManagerAddStream
    \/ ManagerStopTest
    \/ ManagerStopSteps
    \/ MainLoopThread

(***************************************************************************)
(*                          MANAGER LOCKS                                  *)
(***************************************************************************)
\* The two mutexes (0: free, else the thread that holds it), the global
\* callbacks as the number of the latest callback set for each kind (0: none
\* set), the processors of streams_ with the callbacks they hold, the
\* processor AddStream is building, and the position of the thread in
\* AddStream (thread 1) and of the thread in a SetGlobal...Callback (thread 2).
CallbackKinds == {"detection", "state_change", "error"}

NoCallbacks == [k \in CallbackKinds |-> 0]

InitGcb ==
    gcb = [streams_mutex_ |-> 0, callback_mutex_ |-> 0, global |-> NoCallbacks,
           streams_ |-> {}, processor |-> NoCallbacks,
           add |-> "idle", set |-> "idle", kind |-> "detection", added |-> 0]

\* AddStream: std::lock_guard lock(streams_mutex_); the checks, Create.
AddStreamLock ==
    /\ UNCHANGED <<procVars, batchVars, mgrVars, compVars, frameVars, natsVars, inferVars>>
    /\ UNCHANGED <<hailo, sproc, mloop, device, grpc>>
    /\ gcb.add = "idle"
    /\ gcb.streams_mutex_ = 0
    /\ gcb.added < MaxAdded
    /\ gcb' = [gcb EXCEPT !.streams_mutex_ = 1, !.processor = NoCallbacks,
                          !.added = @ + 1, !.add = "ApplyCallbacks"]

\* ApplyCallbacks: std::lock_guard lock(callback_mutex_); the non-null global
\* callbacks are set on the processor.
ApplyCallbacks ==
    /\ UNCHANGED <<procVars, batchVars, mgrVars, compVars, frameVars, natsVars, inferVars>>
    /\ UNCHANGED <<hailo, sproc, mloop, device, grpc>>
    /\ gcb.add = "ApplyCallbacks"
    /\ gcb.callback_mutex_ = 0
    /\ gcb' = [gcb EXCEPT !.processor = [k \in CallbackKinds |->
                                            IF gcb.global[k] # 0 THEN gcb.global[k] ELSE @[k]],
                          !.add = "Start"]

\* AddStream: Start, streams_[info.stream_id] = std::move(processor), return.
AddStreamStore(start_ok) ==
    /\ UNCHANGED <<procVars, batchVars, mgrVars, compVars, frameVars, natsVars, inferVars>>
    /\ UNCHANGED <<hailo, sproc, mloop, device, grpc>>
    /\ gcb.add = "Start"
    /\ gcb' = [gcb EXCEPT !.streams_ = IF start_ok
                                       THEN @ \cup {[id |-> gcb.added, callbacks |-> gcb.processor]}
                                       ELSE @,
                          !.streams_mutex_ = 0, !.add = "idle"]

\* SetGlobalDetectionCallback, SetGlobalStateChangeCallback and
\* SetGlobalErrorCallback: std::lock_guard lock(callback_mutex_); the global
\* callback is replaced.
SetGlobalCallbackLock(kind) ==
    /\ UNCHANGED <<procVars, batchVars, mgrVars, compVars, frameVars, natsVars, inferVars>>
    /\ UNCHANGED <<hailo, sproc, mloop, device, grpc>>
    /\ gcb.set = "idle"
    /\ gcb.callback_mutex_ = 0
    /\ gcb.global[kind] < MaxCallbacks
    /\ gcb' = [gcb EXCEPT !.callback_mutex_ = 2, !.global[kind] = @ + 1,
                          !.kind = kind, !.set = "streams_lock"]

\* std::lock_guard streams_lock(streams_mutex_); every processor of streams_
\* gets the callback; both locks are released at the return.
SetGlobalCallbackApply ==
    /\ UNCHANGED <<procVars, batchVars, mgrVars, compVars, frameVars, natsVars, inferVars>>
    /\ UNCHANGED <<hailo, sproc, mloop, device, grpc>>
    /\ gcb.set = "streams_lock"
    /\ gcb.streams_mutex_ = 0
    /\ gcb' = [gcb EXCEPT
                  !.streams_ = {[s EXCEPT !.callbacks[gcb.kind] = gcb.global[gcb.kind]] : s \in @},
                  !.callback_mutex_ = 0, !.set = "idle"]

LocksNext ==
    \/ AddStreamLock
    \/ ApplyCallbacks
    \/ \E start_ok \in BOOLEAN : AddStreamStore(start_ok)
    \/ \E kind \in CallbackKinds : SetGlobalCallbackLock(kind)
    \/ SetGlobalCallbackApply

(***************************************************************************)
(*                          DEVICE STREAMS                                 *)
(***************************************************************************)
\* The output vstreams of one engine: for each the output frames the device
\* holds for it, oldest first, each marked with the call and the input slot
\* it was computed from.  The device turns every input frame written into one
\* output frame on every output vstream.  `last` is the last call: the frames
\* it was given and, per frame, the output frame read for it from the first
\* output vstream.
OutputStreams == 1..NumOutputs

NoBatchCall == [num_frames |-> 0, written |-> 0, parsed |-> <<>>]

InitDevice ==
    device = [output_vstreams_ |-> [o \in OutputStreams |-> <<>>], calls |-> 0,
              last |-> NoBatchCall]

\* The writes: input_vstreams_[0].write for i < batch_size_, up to the first
\* one that fails (write_failed = 0: none fails).
FramesWritten(num_frames, write_failed) ==
    IF write_failed = 0 THEN BatchSize ELSE write_failed - 1

\* The reads: frame_idx < actual_batch, one read per output vstream, up to the
\* first read that fails (read_failed counts the reads of the call from 1;
\* 0: none fails).  The number of reads that output vstream o has served.
FramesRead(o, num_frames, read_failed) ==
    IF read_failed = 0 THEN Min(num_frames, BatchSize)
    ELSE ((read_failed - 1) \div NumOutputs)
         + (IF o <= (read_failed - 1) % NumOutputs THEN 1 ELSE 0)

\* The frames whose outputs were all read, and so parsed into results.
FramesParsed(num_frames, read_failed) ==
    IF read_failed = 0 THEN Min(num_frames, BatchSize)
    ELSE (read_failed - 1) \div NumOutputs

\* RunBatchInference on a ready engine with frames.
DeviceRunBatchInference(num_frames, write_failed, read_failed) ==
    /\ UNCHANGED <<procVars, batchVars, mgrVars, compVars, frameVars, natsVars, inferVars>>
    /\ UNCHANGED <<hailo, sproc, mloop, gcb, grpc>>
    /\ device.calls < MaxDeviceCalls
    /\ LET call == device.calls + 1
           written == FramesWritten(num_frames, write_failed)
           produced == [i \in 1..written |-> [call |-> call, slot |-> i]]
           queued == [o \in OutputStreams |-> device.output_vstreams_[o] \o produced]
           taken(o) == IF write_failed # 0 THEN 0 ELSE FramesRead(o, num_frames, read_failed)
           parsed == IF write_failed # 0 THEN 0 ELSE FramesParsed(num_frames, read_failed)
       IN  /\ \A o \in OutputStreams : taken(o) <= Len(queued[o])
           /\ device' = [output_vstreams_ |->
                             [o \in OutputStreams |->
                                 SubSeq(queued[o], taken(o) + 1, Len(queued[o]))],
                         calls |-> call,
                         last |-> [num_frames |-> num_frames, written |-> written,
                                   parsed |-> SubSeq(queued[1], 1, parsed)]]

DeviceNext ==
    \E num_frames \in 1..(BatchSize + 1), write_failed \in 0..BatchSize,
       read_failed \in 0..(BatchSize * NumOutputs) :
        /\ read_failed <= Min(num_frames, BatchSize) * NumOutputs
        /\ DeviceRunBatchInference(num_frames, write_failed, read_failed)

(***************************************************************************)
(*                          GRPC SERVICE                                   *)
(***************************************************************************)
\* models_ of the ModelRegistry as usage_count per installed app, and the
\* model_id of every registered stream ("": video only, NoStream: the id is
\* not registered).  The handlers run one at a time.
AppIds == {"m1", "m2"}

GrpcStreamIds == 1..NumGrpcStreams

NoStream == "<no stream>"

InitGrpc ==
    grpc = [models_ |-> [a \in {} |-> 0],
            streams_ |-> [id \in GrpcStreamIds |-> NoStream],
            request |-> "none"]

\* ModelRegistry::IncrementUsage
IncrementUsage(models, model_id) ==
    IF model_id \in DOMAIN models
    THEN [models EXCEPT ![model_id] = @ + 1]
    ELSE models

\* ModelRegistry::DecrementUsage
DecrementUsage(models, model_id) ==
    IF model_id \in DOMAIN models /\ models[model_id] > 0
    THEN [models EXCEPT ![model_id] = @ - 1]
    ELSE models

\* The requests below leave every other variable alone.
GrpcRequest(name, models, streams) ==
    /\ UNCHANGED <<procVars, batchVars, mgrVars, compVars, frameVars, natsVars, inferVars>>
    /\ UNCHANGED <<hailo, sproc, mloop, gcb, device>>
    /\ \A a \in DOMAIN models : models[a] <= MaxUsage
    /\ grpc' = [models_ |-> models, streams_ |-> streams, request |-> name]

\* InstallApp: an app already installed is rejected, a new one starts with
\* usage_count 0.
InstallApp(app_id) ==
    GrpcRequest("InstallApp",
                IF app_id \in DOMAIN grpc.models_ THEN grpc.models_
                ELSE [a \in DOMAIN grpc.models_ \cup {app_id} |->
                         IF a = app_id THEN 0 ELSE grpc.models_[a]],
                grpc.streams_)

\* UninstallApp: every stream of the app is removed and the usage
\* decremented, then DeleteModel(app_id, true).
UninstallApp(app_id) ==
    LET mine == {id \in GrpcStreamIds : grpc.streams_[id] = app_id} IN
    GrpcRequest("UninstallApp",
                [a \in DOMAIN grpc.models_ \ {app_id} |-> grpc.models_[a]],
                [id \in GrpcStreamIds |-> IF id \in mine THEN NoStream ELSE grpc.streams_[id]])

\* AddCamera: a new stream without a model; ok is the result of AddStream.
AddCamera(id, ok) ==
    GrpcRequest("AddCamera", grpc.models_,
                IF grpc.streams_[id] = NoStream /\ ok
                THEN [grpc.streams_ EXCEPT ![id] = ""]
                ELSE grpc.streams_)

\* RemoveCamera
RemoveCamera(id) ==
    LET model_id == grpc.streams_[id] IN
    IF model_id = NoStream
    THEN GrpcRequest("RemoveCamera", grpc.models_, grpc.streams_)
    ELSE GrpcRequest("RemoveCamera",
                     IF model_id # "" THEN DecrementUsage(grpc.models_, model_id)
                     ELSE grpc.models_,
                     [grpc.streams_ EXCEPT ![id] = NoStream])

\* AddInference.  For a registered stream: the usage of its model is
\* decremented, UpdateStream, and the usage of the new model incremented when
\* UpdateStream succeeded; StreamProcessor::Update has overwritten model_id_
\* before the Start that can fail.  For a new stream: AddStream, and the
\* usage incremented when it succeeded.
AddInference(id, app_id, ok) ==
    LET existing == grpc.streams_[id] IN
    IF existing # NoStream
    THEN IF app_id = "" \/ app_id \notin DOMAIN grpc.models_
         THEN GrpcRequest("AddInference", grpc.models_, grpc.streams_)
         ELSE LET decremented == IF existing # ""
                                 THEN DecrementUsage(grpc.models_, existing)
                                 ELSE grpc.models_
              IN  GrpcRequest("AddInference",
                              IF ok THEN IncrementUsage(decremented, app_id) ELSE decremented,
                              [grpc.streams_ EXCEPT ![id] = app_id])
    ELSE IF app_id # "" /\ app_id \notin DOMAIN grpc.models_
         THEN GrpcRequest("AddInference", grpc.models_, grpc.streams_)
         ELSE IF ~ok
         THEN GrpcRequest("AddInference", grpc.models_, grpc.streams_)
         ELSE GrpcRequest("AddInference",
                          IF app_id # "" THEN IncrementUsage(grpc.models_, app_id)
                          ELSE grpc.models_,
                          [grpc.streams_ EXCEPT ![id] = app_id])

\* UpdateInference: UpdateStream with the model of app_id when one is named.
UpdateInference(id, app_id, ok) ==
    IF app_id # "" /\ app_id \notin DOMAIN grpc.models_
    THEN GrpcRequest("UpdateInference", grpc.models_, grpc.streams_)
    ELSE IF grpc.streams_[id] = NoStream
    THEN GrpcRequest("UpdateInference", grpc.models_, grpc.streams_)
    ELSE GrpcRequest("UpdateInference", grpc.models_,
                     IF app_id # "" THEN [grpc.streams_ EXCEPT ![id] = app_id]
                     ELSE grpc.streams_)

\* RemoveInference: ClearStreamInference, and the usage decremented when it
\* succeeded; StreamProcessor::ClearInference has cleared model_id_ before
\* the Start that can fail.
RemoveInference(id, ok) ==
    LET model_id == grpc.streams_[id] IN
    IF model_id = NoStream
    THEN GrpcRequest("RemoveInference", grpc.models_, grpc.streams_)
    ELSE GrpcRequest("RemoveInference",
                     IF ok /\ model_id # "" THEN DecrementUsage(grpc.models_, model_id)
                     ELSE grpc.models_,
                     [grpc.streams_ EXCEPT ![id] = ""])

\* RemoveInferenceAll: ClearStreamInference for every stream of the app, the
\* usage decremented for each one that succeeded.
RECURSIVE DecrementTimes(_, _, _)
DecrementTimes(models, model_id, n) ==
    IF n = 0 THEN models ELSE DecrementTimes(DecrementUsage(models, model_id), model_id, n - 1)

RemoveInferenceAll(app_id, oks) ==
    LET mine == {id \in GrpcStreamIds : grpc.streams_[id] = app_id} IN
    GrpcRequest("RemoveInferenceAll",
                DecrementTimes(grpc.models_, app_id, Cardinality({id \in mine : oks[id]})),
                [id \in GrpcStreamIds |-> IF id \in mine THEN "" ELSE grpc.streams_[id]])

GrpcNext ==
    \/ \E app_id \in AppIds : InstallApp(app_id) \/ UninstallApp(app_id)
    \/ \E id \in GrpcStreamIds, ok \in BOOLEAN :
           \/ AddCamera(id, ok)
           \/ RemoveCamera(id)
           \/ RemoveInference(id, ok)
           \/ \E app_id \in AppIds \cup {""} :
                  AddInference(id, app_id, ok) \/ UpdateInference(id, app_id, ok)
    \/ \E app_id \in AppIds, oks \in [GrpcStreamIds -> BOOLEAN] :
           RemoveInferenceAll(app_id, oks)

InitSysVars == InitHailo /\ InitSproc /\ InitMloop /\ InitGcb /\ InitDevice /\ InitGrpc

(***************************************************************************)
(*                          SPECIFICATIONS                                 *)
(***************************************************************************)
Init ==
    /\ InitProcVars /\ InitBatchVars /\ InitMgrVars /\ InitCompVars /\ InitFrameVars
    /\ InitNatsVars /\ InitInferVars /\ InitSysVars

SpecProc == Init /\ [][ProcNext]_vars

SpecBatch == Init /\ [][BatchNext]_vars

SpecMgr == Init /\ [][MgrNext]_vars

InitCall ==
    /\ InitProcVars /\ InitBatchVars /\ InitMgrCall /\ InitCompVars /\ InitFrameVars
    /\ InitNatsVars /\ InitInferVars /\ InitSysVars

SpecMgrCall == InitCall /\ [][MgrCallNext]_vars

SpecComp == Init /\ [][CompNext]_vars

SpecMatch == Init /\ [][MatchNext]_vars

SpecFrame == Init /\ [][FrameNext]_vars

SpecPub == Init /\ [][NatsNext]_vars

SpecInfer == Init /\ [][InferNext]_vars

SpecEngines == Init /\ [][EnginesNext]_vars

SpecStop == Init /\ [][StopNext]_vars

SpecLoop == Init /\ [][LoopNext]_vars

SpecLocks == Init /\ [][LocksNext]_vars

SpecDevice == Init /\ [][DeviceNext]_vars

SpecGrpc == Init /\ [][GrpcNext]_vars

\* A Stop call that is in progress goes on, and the event-loop thread runs.
SpecLoopLive ==
    /\ Init /\ [][LoopNext]_vars
    /\ WF_vars(ManagerStopSteps)
    /\ WF_vars(MainLoopThread)

\* Frames keep arriving, a call that began goes on, the reconnect thread and
\* the client library run, and an unreachable bus comes back.  The calls of
\* Connect, Disconnect and ForceReconnect are left to the caller.
SpecPubLive ==
    /\ Init /\ [][NatsNext]_vars
    /\ WF_vars(PublishNext)
    /\ WF_vars(ReconnectNext)
    /\ WF_vars(LibraryNext)
    /\ WF_vars(BusUp)
    /\ WF_vars(StopBackgroundReconnect \/ JoinReconnectThread \/ CloseConnection
                   \/ ConnectLocked \/ ConnectReturned)

Next ==
    \/ ProcNext \/ BatchNext \/ MgrNext \/ MgrCallNext \/ CompNext \/ MatchNext \/ FrameNext
    \/ NatsNext \/ InferNext
    \/ EnginesNext \/ StopNext \/ LoopNext \/ LocksNext
    \/ DeviceNext \/ GrpcNext

Spec == Init /\ [][Next]_vars

(***************************************************************************)
(*                               CLAIMS                                    *)
(***************************************************************************)

\* C1: when the ingest pipeline fails after every Start, with no frame and no
\* outside call in between, the processor schedules at most
\* kMaxReconnectAttempts reconnects in a row (and then goes to Error).
C1_ReconnectCap == streak <= kMaxReconnectAttempts

\* The cap as the code enforces it: restarts that fail are counted.
C1_CapReachedByFailedRestarts ==
    /\ proc.state_ = "Error"
    /\ proc_op = "OnReconnectTimeout"
    /\ proc.reconnect_attempts_ = kMaxReconnectAttempts
    /\ streak = kMaxReconnectAttempts

\* C2: the processor is Running only after a frame has been delivered since
\* its last Start; until then it is Starting (or Reconnecting after an error).
C2_RunningOnlyAfterFrame == proc.state_ = "Running" => frame_seen

InternalEvents == {"OnNewSample", "OnBusError", "OnBusPlaying", "OnReconnectTimeout"}

\* C3: no internal event (bus message, reconnect timeout, failed restart)
\* moves the processor out of Error: among the states an internal handler
\* found and then announced, Error can only be the last.
C3_ErrorIsTerminal ==
    proc_op \in InternalEvents =>
        \A i \in 1..(Len(proc.notified) - 1) : proc.notified[i] # "Error"

\* The callback invocations made for frame f.
Count(f) == Cardinality({i \in 1..Len(delivered) : delivered[i].frame = f})

Queued == {pending_frames_[i].id : i \in 1..Len(pending_frames_)}

\* C4: the callback of every accepted frame is invoked exactly once: never
\* twice, and once the worker has exited, once for every frame it took.
C4_CallbackExactlyOnce ==
    \A f \in 1..next_frame :
        /\ Count(f) <= 1
        /\ (worker_pc = "exited" /\ f \notin Queued) => Count(f) = 1

\* C5: a callback gets the detections decoded from its own frame, or the
\* empty list when the result has no entry for the frame's stream id.
C5_OwnDetections ==
    \A i \in 1..Len(delivered) :
        \/ delivered[i].found /\ delivered[i].detections = {delivered[i].frame}
        \/ ~delivered[i].found /\ delivered[i].detections = {}

\* C6: once Stop has returned, the pending queue is empty and every frame that
\* was queued has had its callback.
C6_StopDrainsEverything ==
    stop_pc = "returned" =>
        /\ pending_frames_ = <<>>
        /\ \A f \in 1..next_frame : Count(f) >= 1

\* C7: the callbacks of one stream follow the order its frames were queued in:
\* no callback for an earlier frame comes after one for a later frame.
C7_PerStreamOrder ==
    \A i, j \in 1..Len(delivered) :
        (i < j /\ delivered[i].stream_id = delivered[j].stream_id)
            => delivered[i].frame <= delivered[j].frame

\* C8: every batch handed to batched inference holds 1..BatchSize frames.
C8_BatchSizeBounded == \A n \in batch_sizes : 1 <= n /\ n <= BatchSize

\* C9: a stream id has at most one entry in the registry, and AddStream for a
\* registered id returns an error and changes nothing.
C9_UniqueStreamId ==
    /\ \A e1, e2 \in streams_ : e1.key = e2.key => e1 = e2
    /\ (last_call.op = "AddStream" /\ last_call.id \in Keys(last_call.before))
           => (~last_call.ok /\ streams_ = last_call.before)

C9_DuplicateAddTried ==
    /\ last_call.op = "AddStream"
    /\ last_call.id \in Keys(last_call.before)
    /\ Cardinality(last_call.before) < kMaxStreams

\* C10: at most kMaxStreams streams are registered, and AddStream with
\* kMaxStreams registered returns an error and registers nothing.
C10_MaxStreams ==
    /\ Cardinality(Keys(streams_)) <= kMaxStreams
    /\ (last_call.op = "AddStream" /\ Cardinality(Keys(last_call.before)) >= kMaxStreams)
           => (~last_call.ok /\ streams_ = last_call.before)

C10_AddAtCapacityTried ==
    /\ last_call.op = "AddStream"
    /\ Cardinality(Keys(last_call.before)) = kMaxStreams
    /\ last_call.id \notin Keys(last_call.before)

PolicyFailure ==
    \/ last_call.op = "AddStream"
         /\ (last_call.id \in Keys(last_call.before)
                \/ Cardinality(Keys(last_call.before)) >= kMaxStreams)
    \/ last_call.op \in {"RemoveStream", "UpdateStream", "ClearStreamInference",
                         "UpdateEventSettings", "ClearEventSettings"}
         /\ last_call.id \notin Keys(last_call.before)

\* C11: a manager call that fails for a policy reason (AddStream with a
\* registered id or with kMaxStreams streams registered; any of the other five
\* calls with an id that is not registered) returns an error and leaves the
\* registry, and with it every registered processor, as it was.
C11_PolicyFailureChangesNothing ==
    PolicyFailure => (~last_call.ok /\ streams_ = last_call.before)

C11_UnknownIdSettingsTried ==
    /\ last_call.op = "UpdateEventSettings"
    /\ last_call.id \notin Keys(last_call.before)
    /\ \E e \in last_call.before : GetSettingCount(e.value.event_compositor_) > 0


\* C12 as stated: after Update(new_info) every identity field of the processor
\* equals the one new_info carries, an empty one included.
C12_UpdateOverwritesAll ==
    proc_op = "Update" => stream_info = proc_arg

\* C12: after Update(new_info) rtsp_url, num_keypoints and config equal the
\* ones new_info carries; hef_path, model_id, task and labels equal the ones
\* new_info carries when those are not empty, and are what they were before
\* the call when they are empty.
C12_UpdateKeepsWhereEmpty ==
    [][proc_op' = "Update" =>
          /\ stream_info'.rtsp_url = proc_arg'.rtsp_url
          /\ stream_info'.num_keypoints = proc_arg'.num_keypoints
          /\ stream_info'.config = proc_arg'.config
          /\ \A f \in {"hef_path", "model_id", "task"} :
                 stream_info'[f] = IF proc_arg'[f] = "" THEN stream_info[f]
                                   ELSE proc_arg'[f]
          /\ stream_info'.labels = IF proc_arg'.labels = <<>> THEN stream_info.labels
                                   ELSE proc_arg'.labels]_vars

C12_EmptyTaskKeptOld ==
    /\ proc_op = "Update"
    /\ proc_arg.task = ""
    /\ stream_info.task = "pose"
    /\ stream_info.rtsp_url = proc_arg.rtsp_url


\* What the handler does with the one envelope of a frame: the callback, when
\* set, gets it once; the publisher gets it when it is connected.
OneEnvelope(run) ==
    /\ Len(run.envelopes) = 1
    /\ run.invoked = (IF run.has_callback THEN run.envelopes ELSE <<>>)
    /\ run.published = (IF run.connected THEN run.envelopes ELSE <<>>)

\* C13 as stated: for every frame handed to the on-frame handler exactly one
\* envelope is built, the callback (when set) is invoked once with it, and it
\* is published only when the publisher is connected.
C13_OneEnvelopePerFrame ==
    last_frame.handled => OneEnvelope(last_frame)

\* C13: for every frame whose buffer the handler can map exactly one envelope
\* is built, the callback (when set) is invoked exactly once with it, with or
\* without a connection and with or without detections, and the envelope is
\* handed to the publisher only when the publisher is connected; for a frame
\* whose buffer cannot be mapped nothing is built, published or invoked.
C13_OneEnvelopePerMappedFrame ==
    last_frame.handled =>
        IF last_frame.mapped THEN OneEnvelope(last_frame)
        ELSE /\ last_frame.envelopes = <<>>
             /\ last_frame.published = <<>>
             /\ last_frame.invoked = <<>>

C13_CallbackWithoutConnection ==
    /\ last_frame.handled /\ last_frame.mapped
    /\ ~last_frame.connected /\ last_frame.has_callback
    /\ Len(last_frame.invoked) = 1
    /\ last_frame.invoked[1].detections = <<>>
    /\ last_frame.published = <<>>


\* C14: every envelope carries in its events map the status CheckLineEvents
\* computes for each loaded Line setting and an entry for each loaded
\* AngleViolation setting CheckAngleViolationEvents reports on, and its
\* detections carry the ids of the ROI settings CheckEvents finds them in.
C14_EnvelopeCarriesEventStatus ==
    \A i \in 1..Len(last_frame.envelopes) :
        LET env == last_frame.envelopes[i]
            comp == last_frame.settings
            lines == CheckLineEvents(comp, env.detections)
        IN  /\ \A id \in DOMAIN lines :
                   /\ id \in DOMAIN env.events
                   /\ env.events[id].status = lines[id].status
                   /\ env.events[id].labels = lines[id].labels
            /\ AngleViolationIds(comp, env.detections) \subseteq DOMAIN env.events
            /\ \A d \in 1..Len(env.detections) :
                   env.detections[d].event_setting_ids =
                       {id \in DOMAIN comp.settings_ :
                           /\ comp.settings_[id].event_type = "ROI"
                           /\ CheckROIEvent(comp.settings_[id], env.detections[d],
                                            env.width, env.height)}

C14_LineSettingAndDetections ==
    /\ Len(last_frame.envelopes) = 1
    /\ \E id \in DOMAIN CheckLineEvents(last_frame.settings,
                                        last_frame.envelopes[1].detections) :
           CheckLineEvents(last_frame.settings,
                           last_frame.envelopes[1].detections)[id].status > 0
    /\ \E d \in 1..Len(last_frame.envelopes[1].detections) :
           last_frame.envelopes[1].detections[d].event_setting_ids # {}


\* The last call was UpdateSettings and it returned a list / an error.
UpdateSucceeded == comp_call.op = "UpdateSettings" /\ comp_call.ok

UpdateFailed == comp_call.op = "UpdateSettings" /\ ~comp_call.ok

\* C15: whenever UpdateSettings returns an error the compositor holds no
\* settings and no terminal events afterwards, also when the failure occurs
\* at a later entry of the configs array.
C15_ErrorLeavesEmpty ==
    UpdateFailed =>
        /\ GetSettingCount(compositor) = 0
        /\ compositor.terminal_events_ = {}

C15_FailureAtSecondEntry ==
    /\ UpdateFailed
    /\ comp_call.doc.well_formed /\ Len(comp_call.doc.configs) = 2
    /\ ~Throws(comp_call.doc.configs[1]) /\ Throws(comp_call.doc.configs[2])
    /\ GetSettingCount(compositor) = 1

\* The settings reached from id by following children at most n times.
RECURSIVE Descendants(_, _, _)
Descendants(settings, ids, n) ==
    IF n = 0 THEN {}
    ELSE LET below == UNION {settings[id].children : id \in ids}
         IN  below \cup Descendants(settings, below, n - 1)

\* C16: after every successful UpdateSettings no setting is its own ancestor
\* in the parent/child relation built from parent_id.
C16_NoCycle ==
    UpdateSucceeded =>
        \A id \in DOMAIN compositor.settings_ :
            id \notin Descendants(compositor.settings_, {id},
                                  Cardinality(DOMAIN compositor.settings_))

C16_MutualParents ==
    /\ UpdateSucceeded
    /\ DOMAIN compositor.settings_ = {"e1", "e2"}
    /\ compositor.settings_["e1"].children = {"e2"}
    /\ compositor.settings_["e2"].children = {"e1"}

\* C17: after a successful UpdateSettings the returned list holds exactly the
\* ids of the loaded settings that no loaded setting names as its parent and
\* whose type is neither Filter nor HM.
C17_TerminalsExactly ==
    UpdateSucceeded =>
        comp_call.value =
            {id \in DOMAIN compositor.settings_ :
                /\ ~\E c \in DOMAIN compositor.settings_ :
                        compositor.settings_[c].parent_id = id
                /\ compositor.settings_[id].event_type \notin {"Filter", "HM"}}

C17_ChildlessFilterLeftOut ==
    /\ UpdateSucceeded
    /\ DOMAIN compositor.settings_ = {"e1", "e2"}
    /\ compositor.settings_["e2"].event_type = "Filter"
    /\ compositor.settings_["e2"].parent_id = ""
    /\ compositor.settings_["e1"].parent_id = ""
    /\ comp_call.value = {"e1"}

\* The kinds of event the settings document may name.
ListedKinds ==
    {"ROI", "Line", "AngleViolation", "And", "Or", "Speed", "HM", "Filter", "EnEx", "Alarm"}

\* Entry i of the document of the last call carries an id and an eventType
\* string that is not a listed kind in any spelling of its letters' case.
UnlistedKindAt(i) ==
    LET config == comp_call.doc.configs[i] IN
    /\ config.eventSettingId \notin {Absent, NotAString}
    /\ config.eventType \notin {Absent, NotAString}
    /\ ~\E kind \in ListedKinds : Lower(kind) = Lower(config.eventType)

\* C18: UpdateSettings returns an error when an entry carries an eventType
\* that is not one of the listed kinds, and no setting is loaded under the id
\* of such an entry.
C18_UnlistedKindRejected ==
    comp_call.op = "UpdateSettings" =>
        \A i \in 1..Len(comp_call.doc.configs) :
            UnlistedKindAt(i) =>
                /\ ~comp_call.ok
                /\ comp_call.doc.configs[i].eventSettingId \notin DOMAIN compositor.settings_

C18_UnlistedKindLoaded ==
    /\ UpdateSucceeded
    /\ Len(comp_call.doc.configs) = 1
    /\ UnlistedKindAt(1)
    /\ compositor.settings_["e1"].event_type = "Unknown"
    /\ comp_call.value = {"e1"}


\* Two strings are the same but for the case of their letters.
SameIgnoringCase(a, b) ==
    \/ a = b
    \/ \E spellings \in {{"person", "Person", "PERSON"}, {"car", "Car", "CAR"},
                         {"bus", "Bus", "BUS"}, {"all", "All", "ALL"}} :
           a \in spellings /\ b \in spellings

\* The three ways of writing "every class" in targets.
AllForms == {Targets("string", <<"ALL">>), Targets("array", <<"ALL">>), Targets("array", <<>>)}

\* A non-empty label list matches exactly the detections whose class name is
\* one of the labels but for case.
MatchesByLabel ==
    LET labels == compositor.settings_["e1"].labels
        det == comp_call.detections[1]
    IN  labels # <<>> =>
            (comp_call.ok <=> \E i \in 1..Len(labels) :
                                  SameIgnoringCase(labels[i], det.class_name))

\* C19 as stated: a setting parsed from targets "ALL", ["ALL"] or [] matches
\* every detection, and a non-empty label list matches exactly the
\* detections whose class name equals one of the labels ignoring case.
C19_AllFormsMatchEverything ==
    comp_call.op = "MatchesTarget" =>
        /\ comp_call.doc.configs[1].targets \in AllForms => comp_call.ok
        /\ MatchesByLabel

\* C19: a setting parsed from an entry with targets "ALL", ["ALL"] or [] and
\* no target.label has an empty label list and matches every detection; a
\* setting with a non-empty label list matches exactly the detections whose
\* class name equals one of its labels ignoring case.
C19_AllFormsWithoutTargetLabel ==
    comp_call.op = "MatchesTarget" =>
        /\ (comp_call.doc.configs[1].targets \in AllForms
              /\ comp_call.doc.configs[1].target = Absent)
             => (compositor.settings_["e1"].labels = <<>> /\ comp_call.ok)
        /\ MatchesByLabel

C19_AllArrayMatchesBus ==
    /\ comp_call.op = "MatchesTarget"
    /\ comp_call.doc.configs[1].targets = Targets("array", <<"ALL">>)
    /\ comp_call.doc.configs[1].target = Absent
    /\ comp_call.detections[1].class_name = "bus"
    /\ comp_call.ok

\* The statuses CheckLineEvent gives the detections of the last call for the
\* setting id.
LineStatuses(id) ==
    [i \in 1..Len(comp_call.detections) |->
        CheckLineEvent(compositor.settings_[id], comp_call.detections[i])]

\* C20: for each Line setting CheckLineEvents reports the greatest of the
\* statuses of the detections, and as labels the class names of the
\* detections whose own status is not SAFE, each name once.
C20_MaxStatusAndLabelSet ==
    (comp_call.op = "CheckLineEvents" /\ comp_call.detections # <<>>) =>
        /\ DOMAIN comp_call.results =
               {id \in DOMAIN compositor.settings_ :
                   compositor.settings_[id].event_type = "Line"}
        /\ \A id \in DOMAIN comp_call.results :
               LET statuses == LineStatuses(id)
                   result == comp_call.results[id]
               IN  /\ \A i \in DOMAIN statuses : result.status >= statuses[i]
                   /\ \/ \E i \in DOMAIN statuses : result.status = statuses[i]
                      \/ result.status = 0
                   /\ {result.labels[k] : k \in 1..Len(result.labels)} =
                          {comp_call.detections[i].class_name :
                              i \in {j \in DOMAIN statuses : statuses[j] > 0}}
                   /\ \A k, l \in 1..Len(result.labels) :
                          result.labels[k] = result.labels[l] => k = l

C20_DangerThenSafe ==
    /\ comp_call.op = "CheckLineEvents"
    /\ Len(comp_call.detections) = 2
    /\ "e1" \in DOMAIN comp_call.results
    /\ LineStatuses("e1") = <<2, 0>>
    /\ comp_call.results["e1"].status = 2
    /\ comp_call.results["e1"].labels = <<comp_call.detections[1].class_name>>


\* C21: for a Line setting whose direction is BOTH, missing or not a
\* recognised string, the status CheckLineEvents reports is never 2 (DANGER).
C21_BothNeverDanger ==
    comp_call.op = "CheckLineEvents" =>
        \A id \in DOMAIN comp_call.results :
            comp_call.doc.configs[1].direction \notin {"A2B", "B2A"}
                => comp_call.results[id].status # 2

C21_UnrecognisedDirectionWarns ==
    /\ comp_call.op = "CheckLineEvents"
    /\ "e1" \in DOMAIN comp_call.results
    /\ comp_call.doc.configs[1].direction = "a2b"
    /\ comp_call.results["e1"].status = 1
    /\ \E i \in 1..Len(comp_call.detections) :
           \E k \in 1..Len(comp_call.detections[i].keypoints) :
               /\ comp_call.detections[i].keypoints[k].visible >= 30
               /\ PointLineSide(comp_call.detections[i].keypoints[k],
                                compositor.settings_["e1"].points[1],
                                compositor.settings_["e1"].points[2]) > 0


LinkLost ==
    /\ nats.state_ = "Connected" /\ nats.connection_ = "CLOSED"
    /\ nats_pc.pub = "Idle"
    /\ nats.messages_published_ < MaxPublished

\* C24: when the established connection is lost while frames keep being
\* published through Publish, the publisher starts its background reconnect
\* or is connected again, unless Connect, Disconnect or ForceReconnect is
\* called first.
C24_LostLinkReconnects ==
    LinkLost ~> \/ IsConnected(nats)
                \/ nats.reconnect_thread_running_
                \/ nats_pc.ctl # "Idle"

C24_PublishOnLostLink ==
    /\ LinkLost
    /\ bus.reachable
    /\ nats_log.publish.op = "Publish"
    /\ nats_log.publish.done /\ ~nats_log.publish.connected
    /\ nats_log.publish.before.messages_published_ = 1
    /\ ~nats.reconnect_thread_running_ /\ nats_pc.rt = "None"
    /\ nats_pc.ctl = "Idle"


\* C25: once Connect has failed, the publisher is connected in the end,
\* unless Disconnect (alone or in ForceReconnect) is called or the bus stays
\* unreachable.
C25_FailedConnectRetriesUntilConnected ==
    (nats_log.connect_failed /\ bus.outages = MaxOutages)
        ~> \/ IsConnected(nats)
           \/ nats_log.ctl_op \in {"Disconnect", "ForceReconnect"}

C25_RetryAfterFailedConnect ==
    /\ nats_log.connect_failed
    /\ nats_log.ctl_op = "Connect" /\ nats_pc.ctl = "Idle"
    /\ nats.reconnect_thread_running_
    /\ nats.reconnect_attempts_ = 2
    /\ nats_pc.rt = "Connecting"
    /\ bus.reachable


\* C26: once Disconnect has returned, and until Connect or ForceReconnect is
\* called, no reconnect thread runs, the state is not Connected (it is
\* Disconnected) and IsConnected() is false.
C26_DisconnectedStaysDisconnected ==
    nats_log.disconnected =>
        /\ ~nats.reconnect_thread_running_
        /\ nats.state_ = "Disconnected"
        /\ ~IsConnected(nats)

C26_DisconnectStoppedTheThread ==
    /\ nats_log.disconnected
    /\ nats_log.ctl_op = "Disconnect" /\ nats_pc.ctl = "Idle"
    /\ nats_pc.rt = "None"
    /\ nats.reconnect_attempts_ > 0
    /\ nats.state_ = "Disconnected" /\ nats.connection_ = "null"

\* C27: a Publish call never stands at connection_mutex_ while another
\* thread holds it across natsConnection_Connect.
C27_PublishNeverWaitsForConnect ==
    ~ /\ nats_pc.pub \in {"IsConnected", "PublishRaw"}
      /\ nats_log.publish.op = "Publish"
      /\ connection_mutex_ \in {"ctl", "rt"}

C27_PublishDuringConnect ==
    /\ connection_mutex_ \in {"ctl", "rt"}
    /\ nats_log.publish.op = "Publish"
    /\ nats_log.publish.done /\ ~nats_log.publish.connected
    /\ nats_log.publish.before.messages_published_ = 1
    /\ nats.state_ = "Connecting"


\* C28: every detection handed to a stream, by RunInference or through the
\* batch manager, has a confidence of at least the stream's
\* confidence_threshold.
C28_ConfidenceAtLeastThreshold ==
    \A i \in 1..Len(infer_call.delivered) :
        \A d \in 1..Len(infer_call.delivered[i].detections) :
            infer_call.delivered[i].detections[d].confidence
                >= infer_call.delivered[i].threshold

C28_DirectRunFilters ==
    /\ infer_call.op = "RunInference"
    /\ Len(infer_call.slots[1]) = 2
    /\ infer_call.slots[1][1].score = 30 /\ infer_call.slots[1][2].score = 50
    /\ infer_call.delivered[1].threshold = 50
    /\ Len(infer_call.delivered[1].detections) = 1
    /\ infer_call.delivered[1].detections[1].confidence = 50

C30_NmsIdempotent ==
    infer_call.op = "ApplyNMS" =>
        {infer_call.keep_again[k] : k \in 1..Len(infer_call.keep_again)}
            = 1..Len(infer_call.kept)

C30_SuppressedOneKeptTwo ==
    /\ infer_call.op = "ApplyNMS"
    /\ Len(infer_call.slots) = 3 /\ Len(infer_call.keep) = 2
    /\ infer_call.kept[1].score = infer_call.kept[2].score
    /\ infer_call.keep_again = <<2, 1>>


\* C31: whatever the interleaving of GetInstance calls, the successful calls
\* with one HEF path were all handed one engine, and a call that failed has
\* left no entry for its path in instances_.
C31_OneEnginePerPath ==
    /\ \A a, b \in hailo.handed : a.path = b.path => a.engine = b.engine
    /\ \A t \in Callers : hailo.calls[t].result = "error" => ~hailo.calls[t].entry_left

C31_SecondCallerAfterFailure ==
    /\ hailo.calls[1].path = "a.hef" /\ hailo.calls[1].result = "error"
    /\ hailo.calls[2].path = "a.hef" /\ hailo.calls[2].result = "ok"
    /\ hailo.calls[2].engine = 2
    /\ [path |-> "a.hef", engine |-> 2] \in hailo.handed

\* C32: once Stop has returned, and until the next Start, Update or
\* ClearInference, the processor is Stopped and no reconnect timer is pending,
\* also when a bus handler or the reconnect timeout runs on the event-loop
\* thread while Stop runs.
C32_StoppedStaysStopped ==
    sproc.stopped =>
        /\ sproc.p.state_ = "Stopped"
        /\ sproc.p.reconnect_source_id_ = 0

C32_StopCancelledTheTimer ==
    /\ sproc.stopped /\ sproc.ctl = "idle" /\ sproc.loop = "idle"
    /\ sproc.p.notified = <<"Reconnecting", "Stopped">>
    /\ sproc.p.reconnect_source_id_ = 0
    /\ sproc.p.reconnect_attempts_ > 0

\* C33: a Stop call made after Start returns in the end, with IsRunning()
\* false and the event-loop thread joined, also when Stop runs before the
\* thread has entered g_main_loop_run.
C33_StopReturns ==
    (mloop.caller # "idle") ~>
        (mloop.caller = "idle" /\ ~mloop.running_ /\ mloop.main_loop_thread_ = "none")

C33_StopJoinedARunningLoop ==
    /\ mloop.caller = "idle" /\ ~mloop.running_
    /\ mloop.main_loop_thread_ = "none"
    /\ mloop.starts = 2

\* C34: AddStream and the SetGlobal...Callback calls never deadlock, and once
\* both have returned every processor of streams_ holds the current global
\* callbacks.
Deadlocked ==
    /\ gcb.add = "ApplyCallbacks" /\ gcb.callback_mutex_ = 2
    /\ gcb.set = "streams_lock" /\ gcb.streams_mutex_ = 1

C34_NoDeadlockCurrentCallbacks ==
    /\ ~Deadlocked
    /\ gcb.add = "idle" /\ gcb.set = "idle" =>
           \A s \in gcb.streams_ : s.callbacks = gcb.global

C34_AddedWhileSetterWaited ==
    /\ gcb.add = "idle" /\ gcb.set = "idle"
    /\ gcb.global["error"] = 1
    /\ [id |-> 1, callbacks |-> [NoCallbacks EXCEPT !["error"] = 1]] \in gcb.streams_

\* C35: the publisher never starts a reconnect thread while the handle of an
\* earlier one (reconnect_thread_) is still joinable, whatever the sequence
\* of Connect, Disconnect, ForceReconnect and Publish calls, also after a
\* reconnect thread that ended by itself.
C35_NoThreadOverUnjoinedHandle == nats_log.terminated = FALSE

C35_ThreadStartedAfterJoin ==
    /\ ~nats_log.terminated
    /\ nats_log.ctl_op = "ForceReconnect" /\ nats_pc.ctl = "Idle"
    /\ nats_pc.rt = "Wait" /\ nats.reconnect_thread_running_
    /\ bus.outages = 2

\* C36: when RunBatchInference has returned, no output frame is left queued
\* on any output vstream: it read one for every input frame it wrote, the
\* padding slots included, also for a batch of fewer frames than batch_size.
C36_NoOutputLeftQueued ==
    \A o \in OutputStreams : device.output_vstreams_[o] = <<>>

C36_FullBatchReadBack ==
    /\ device.calls = 2
    /\ device.last.num_frames = BatchSize /\ device.last.written = BatchSize
    /\ Len(device.last.parsed) = BatchSize
    /\ \A o \in OutputStreams : device.output_vstreams_[o] = <<>>

\* C37: the engine decodes with the NMS parser whenever the first output
\* reports a positive class count, whatever the number of outputs; with the
\* raw-YOLO parser only when the count is not positive and there is more
\* than one output; with neither otherwise.
C37_OutputClassification ==
    infer_call.op = "Initialize" =>
        infer_call.path = IF infer_call.info.number_of_classes > 0 THEN "nms"
                          ELSE IF infer_call.info.num_outputs > 1 THEN "raw"
                          ELSE "none"

C37_SingleNmsOutput ==
    /\ infer_call.op = "Initialize"
    /\ infer_call.info = [number_of_classes |-> 80, num_outputs |-> 1]
    /\ infer_call.path = "nms"

\* C38: on both decode paths the width and the height of a box are taken
\* from its corners after they were clamped to the frame
\* (width = clamp(x2) - clamp(x1)), so a box that starts left of or above the
\* frame is shortened.
ClampedSize(low, high, pad, limit, letterbox) ==
    LET Clamped(v) == Max(0, Min(limit * letterbox.num, v)) IN
    Trunc(Clamped((high - pad) * letterbox.den) - Clamped((low - pad) * letterbox.den),
          letterbox.num)

C38_SizeFromClampedCorners ==
    infer_call.op \in {"RunInference", "RunBatchInference"} =>
        \A i \in 1..Len(infer_call.delivered) :
            Len(infer_call.slots[i]) = 1 /\ Len(infer_call.delivered[i].detections) = 1 =>
                LET box == infer_call.slots[i][1].box
                    frame == infer_call.delivered[i].frame
                    bbox == infer_call.delivered[i].detections[1].bbox
                    letterbox == LetterboxOf(frame)
                IN  /\ bbox.width = ClampedSize(box[1], box[3], letterbox.pad_x,
                                                frame.width, letterbox)
                    /\ bbox.height = ClampedSize(box[2], box[4], letterbox.pad_y,
                                                 frame.height, letterbox)

C38_RawBoxShortened ==
    /\ infer_call.op = "RunBatchInference" /\ infer_call.path = "raw"
    /\ infer_call.slots[1] = <<Slot(<<-2, 2, 3, 5>>, 30)>>
    /\ infer_call.delivered[1].frame = [width |-> 8, height |-> 8]
    /\ Len(infer_call.delivered[1].detections) = 1
    /\ infer_call.delivered[1].detections[1].bbox.width = 3

\* C39: after every request, successful or failed, the usage_count of each
\* installed model is the number of registered streams with that model_id.
StreamsOf(model_id) == {id \in GrpcStreamIds : grpc.streams_[id] = model_id}

C39_UsageCountsStreams ==
    \A a \in DOMAIN grpc.models_ : grpc.models_[a] = Cardinality(StreamsOf(a))

C39_BothStreamsOnOneModel ==
    /\ grpc.request = "AddInference"
    /\ "m1" \in DOMAIN grpc.models_ /\ grpc.models_["m1"] = 2
    /\ StreamsOf("m1") = GrpcStreamIds

\* C40: for every configured number N of keypoints, keypoint k of grid cell
\* p is read from the floats p*3N + 3k, p*3N + 3k + 1 and p*3N + 3k + 2 of
\* the keypoint output.
C40_KeypointLayout ==
    infer_call.op = "ParseRawYoloKeypoints" =>
        LET N == Len(infer_call.read)
            p == infer_call.pixel_idx
        IN  \A k \in 0..(N - 1) :
                infer_call.read[k + 1]
                    = <<p * 3 * N + 3 * k, p * 3 * N + 3 * k + 1, p * 3 * N + 3 * k + 2>>

C40_FourKeypointsSecondCell ==
    /\ infer_call.op = "ParseRawYoloKeypoints"
    /\ infer_call.num_keypoints_ = 4 /\ infer_call.pixel_idx = 1
    /\ infer_call.read[4] = <<21, 22, 23>>

=============================================================================
